---------------------------- MODULE Spec2Model ----------------------------
(***************************************************************************)
(* A model of the ElasticSwap SDK math core (MathLib) and of the caller-   *)
(* held internalBalances record it works on.                               *)
(*                                                                         *)
(* MathLib computes on bignumber.js decimals.  bignumber.js is arbitrary   *)
(* precision: plus, minus and multipliedBy are exact, dividedBy (and sqrt) *)
(* round the result to DECIMAL_PLACES = 20 decimal places with             *)
(* ROUND_HALF_UP, and dp(n, ROUND_DOWN) truncates towards zero.  TLC's     *)
(* integers are 32 bits wide, so the decimals are modelled as a sign, a    *)
(* little-endian sequence of limbs (base 1000) and a count of decimal      *)
(* places.                                                                 *)
(*                                                                         *)
(* A value that is used more than once is passed to an operator as a       *)
(* parameter instead of being named in a LET: the names of the source's    *)
(* local variables are the parameter names of those operators.             *)
(***************************************************************************)
EXTENDS Integers, Sequences, FiniteSets, TLC

-----------------------------------------------------------------------------
(* Natural numbers of any size: little-endian limb sequences, << >> is 0.   *)

BASE == 10 * 10 * 10

Max(a, b) == IF a >= b THEN a ELSE b
Min(a, b) == IF a <= b THEN a ELSE b

RECURSIVE NTrim(_)
NTrim(a) ==
  IF a = << >> THEN << >>
  ELSE IF a[Len(a)] = 0 THEN NTrim(SubSeq(a, 1, Len(a) - 1))
  ELSE a

RECURSIVE NatOf(_)
NatOf(n) == IF n = 0 THEN << >> ELSE <<n % BASE>> \o NatOf(n \div BASE)

RECURSIVE NAddC(_, _, _)
NAddC(a, b, c) ==
  IF a = << >> /\ b = << >> THEN (IF c = 0 THEN << >> ELSE <<c>>)
  ELSE IF b = << >> /\ c = 0 THEN a
  ELSE IF a = << >> /\ c = 0 THEN b
  ELSE IF a = << >> THEN <<(Head(b) + c) % BASE>> \o NAddC(a, Tail(b), (Head(b) + c) \div BASE)
  ELSE IF b = << >> THEN <<(Head(a) + c) % BASE>> \o NAddC(Tail(a), b, (Head(a) + c) \div BASE)
  ELSE <<(Head(a) + Head(b) + c) % BASE>>
         \o NAddC(Tail(a), Tail(b), (Head(a) + Head(b) + c) \div BASE)

NAdd(a, b) == NAddC(a, b, 0)

(* a - b - c for a >= b + c, c a borrow of 0 or 1; leading zero limbs remain *)
RECURSIVE NSubB(_, _, _)
NSubB(a, b, c) ==
  IF a = << >> THEN << >>
  ELSE IF b = << >> /\ c = 0 THEN a
  ELSE IF b = << >>
       THEN (IF Head(a) >= c THEN <<Head(a) - c>> \o Tail(a)
             ELSE <<Head(a) + BASE - c>> \o NSubB(Tail(a), b, 1))
  ELSE IF Head(a) >= Head(b) + c
       THEN <<Head(a) - Head(b) - c>> \o NSubB(Tail(a), Tail(b), 0)
  ELSE <<Head(a) + BASE - Head(b) - c>> \o NSubB(Tail(a), Tail(b), 1)

NSub(a, b) == NTrim(NSubB(a, b, 0))

RECURSIVE NCmpFrom(_, _, _)
NCmpFrom(a, b, i) ==
  IF i = 0 THEN 0
  ELSE IF a[i] < b[i] THEN -1
  ELSE IF a[i] > b[i] THEN 1
  ELSE NCmpFrom(a, b, i - 1)

(* -1, 0 or 1 as a < b, a = b, a > b (both without leading zero limbs) *)
NCmp(a, b) ==
  IF Len(a) < Len(b) THEN -1
  ELSE IF Len(a) > Len(b) THEN 1
  ELSE NCmpFrom(a, b, Len(a))

(* a * k + c for a small k (k * BASE fits the machine integer) *)
RECURSIVE NMulSmallC(_, _, _)
NMulSmallC(a, k, c) ==
  IF a = << >> THEN NatOf(c)
  ELSE <<(Head(a) * k + c) % BASE>> \o NMulSmallC(Tail(a), k, (Head(a) * k + c) \div BASE)

NMulSmall(a, k) == IF k = 0 THEN << >> ELSE NMulSmallC(a, k, 0)

NShift(a, n) == IF a = << >> THEN a ELSE [i \in 1..n |-> 0] \o a

RECURSIVE NMul(_, _)
NMul(a, b) ==
  IF a = << >> \/ b = << >> THEN << >>
  ELSE NAdd(NMulSmall(b, Head(a)), NShift(NMul(Tail(a), b), 1))

(* the value of the limbs i..Len(a) of a, which must fit the machine integer *)
RECURSIVE NTop(_, _)
NTop(a, i) == IF i > Len(a) THEN 0 ELSE a[i] + BASE * NTop(a, i + 1)

(* floor(a / k) for a small k > 0: q collects the quotient, r the remainder *)
RECURSIVE NDivSmallLoop(_, _, _, _, _)
NDivSmallLoop(a, k, i, q, r) ==
  IF r < 0 \/ i = 0 THEN q
  ELSE NDivSmallLoop(a, k, i - 1, <<(r * BASE + a[i]) \div k>> \o q, (r * BASE + a[i]) % k)

NDivSmall(a, k) == NTrim(NDivSmallLoop(a, k, Len(a), << >>, 0))

(* the largest d <= hi with b * d <= r *)
RECURSIVE NQuotDigit(_, _, _)
NQuotDigit(r, b, hi) ==
  IF hi = 0 THEN 0
  ELSE IF NCmp(NMulSmall(b, hi), r) <= 0 THEN hi
  ELSE NQuotDigit(r, b, hi - 1)

(* one step of long division, r1 < b * BASE: r1 = d * b + r *)
NDivStepInt(x, y) == [d |-> x \div y, r |-> NatOf(x % y)]

NDivStepBig(r1, b, d) == [d |-> d, r |-> NSub(r1, NMulSmall(b, d))]

NDivStep(r1, b) ==
  IF NCmp(r1, b) < 0 THEN [d |-> 0, r |-> r1]
  ELSE IF Len(b) <= 2 THEN NDivStepInt(NTop(r1, 1), NTop(b, 1))
  ELSE NDivStepBig(r1, b,
         NQuotDigit(r1, b, Min(BASE - 1, NTop(r1, Len(b) - 1) \div NTop(b, Len(b) - 1))))

NDivAcc(q, s) == [q |-> <<s.d>> \o q, r |-> s.r]

(* long division from the most significant limb: st = [q, r] so far *)
RECURSIVE NDivLoop(_, _, _, _)
NDivLoop(a, b, i, st) ==
  IF Len(st.q) < 0 \/ i = 0 THEN st
  ELSE NDivLoop(a, b, i - 1, NDivAcc(st.q, NDivStep(NTrim(<<a[i]>> \o st.r), b)))

NDivTrim(st) == [q |-> NTrim(st.q), r |-> st.r]

(* [q, r] with a = q * b + r and 0 <= r < b, for b > 0 *)
NDivMod(a, b) == NDivTrim(NDivLoop(a, b, Len(a), [q |-> << >>, r |-> << >>]))

NDiv(a, b) == NDivMod(a, b).q

Pow10Small(k) == IF k = 0 THEN 1 ELSE IF k = 1 THEN 10 ELSE 100

(* a * 10^k *)
NScale(a, k) ==
  IF a = << >> \/ k = 0 THEN a
  ELSE NShift(NMulSmall(a, Pow10Small(k % 3)), k \div 3)

(* floor(a / 10^k) *)
NUnscale(a, k) ==
  IF k \div 3 >= Len(a) THEN << >>
  ELSE NDivSmall(SubSeq(a, (k \div 3) + 1, Len(a)), Pow10Small(k % 3))

-----------------------------------------------------------------------------
(* bignumber.js decimals.  A finite value is (-1)^neg * m / 10^e with no    *)
(* trailing decimal zero; k tells finite values from NaN and Infinity.      *)

DECIMAL_PLACES == 20

NaN == [k |-> "nan", neg |-> FALSE, m |-> << >>, e |-> 0]

Infinity(neg) == [k |-> "inf", neg |-> neg, m |-> << >>, e |-> 0]

RECURSIVE BStrip(_, _)
BStrip(m, e) ==
  IF e = 0 \/ m = << >> THEN [m |-> m, e |-> 0]
  ELSE IF m[1] % 10 # 0 THEN [m |-> m, e |-> e]
  ELSE BStrip(NDivSmall(m, 10), e - 1)

FinS(neg, s) == [k |-> "fin", neg |-> neg /\ s.m # << >>, m |-> s.m, e |-> s.e]

Fin(neg, m, e) == FinS(neg, BStrip(m, e))

(* new BigNumber(n) for a machine integer n *)
BN(n) == [k |-> "fin", neg |-> n < 0, m |-> NatOf(IF n < 0 THEN 0 - n ELSE n), e |-> 0]

(* new BigNumber(d * 10^p) for d, p >= 0 *)
BNe(d, p) == [k |-> "fin", neg |-> FALSE, m |-> NScale(NatOf(d), p), e |-> 0]

ZERO == [k |-> "fin", neg |-> FALSE, m |-> << >>, e |-> 0]

BASIS_POINTS == [k |-> "fin", neg |-> FALSE, m |-> <<0, 10>>, e |-> 0]

isNaN(a) == a.k = "nan"

isZero(a) == a.k = "fin" /\ a.m = << >>

isNegative(a) == a.k # "nan" /\ a.neg

negated(a) ==
  IF a.k = "inf" \/ (a.k = "fin" /\ a.m # << >>) THEN [a EXCEPT !.neg = ~a.neg] ELSE a

abs(a) == [a EXCEPT !.neg = FALSE]

Sgn(a) == IF a.k = "fin" /\ a.m = << >> THEN 0 ELSE IF a.neg THEN -1 ELSE 1

(* the mantissa of a at e >= a.e decimal places *)
MantAt(a, e) == NScale(a.m, e - a.e)

CmpMag(a, b) == NCmp(MantAt(a, Max(a.e, b.e)), MantAt(b, Max(a.e, b.e)))

(* -1, 0, 1 as bignumber.js comparedTo; 2 stands for its null (a NaN operand) *)
comparedTo(a, b) ==
  IF a.k = "nan" \/ b.k = "nan" THEN 2
  ELSE IF Sgn(a) # Sgn(b) THEN (IF Sgn(a) < Sgn(b) THEN -1 ELSE 1)
  ELSE IF a.k = "inf" \/ b.k = "inf"
       THEN (IF a.k = b.k THEN 0 ELSE IF a.k = "inf" THEN Sgn(a) ELSE 0 - Sgn(a))
  ELSE Sgn(a) * CmpMag(a, b)

isEqualTo(a, b) == comparedTo(a, b) = 0
isLessThan(a, b) == comparedTo(a, b) = -1
isGreaterThan(a, b) == comparedTo(a, b) = 1
isLessThanOrEqualTo(a, b) == comparedTo(a, b) \in {-1, 0}
isGreaterThanOrEqualTo(a, b) == comparedTo(a, b) \in {0, 1}

PlusFin(an, x, bn, y, e) ==
  IF an = bn THEN Fin(an, NAdd(x, y), e)
  ELSE IF NCmp(x, y) >= 0 THEN Fin(an, NSub(x, y), e)
  ELSE Fin(bn, NSub(y, x), e)

plus(a, b) ==
  IF a.k = "nan" \/ b.k = "nan" THEN NaN
  ELSE IF a.k = "inf" THEN (IF b.k = "inf" /\ a.neg # b.neg THEN NaN ELSE a)
  ELSE IF b.k = "inf" THEN b
  ELSE PlusFin(a.neg, MantAt(a, Max(a.e, b.e)), b.neg, MantAt(b, Max(a.e, b.e)), Max(a.e, b.e))

minus(a, b) == plus(a, negated(b))

multipliedBy(a, b) ==
  IF a.k = "nan" \/ b.k = "nan" THEN NaN
  ELSE IF a.k = "inf" \/ b.k = "inf"
       THEN (IF isZero(a) \/ isZero(b) THEN NaN ELSE Infinity(a.neg # b.neg))
  ELSE Fin(a.neg # b.neg, NMul(a.m, b.m), a.e + b.e)

(* N / D rounded to the nearest integer, halves up *)
DivHalfUp(N, D) == NDiv(NAdd(NMulSmall(N, 2), D), NMulSmall(D, 2))

(* the quotient rounded to DECIMAL_PLACES places with ROUND_HALF_UP *)
dividedBy(a, b) ==
  IF a.k = "nan" \/ b.k = "nan" THEN NaN
  ELSE IF a.k = "inf" THEN (IF b.k = "inf" THEN NaN ELSE Infinity(a.neg # b.neg))
  ELSE IF b.k = "inf" THEN ZERO
  ELSE IF b.m = << >> THEN (IF a.m = << >> THEN NaN ELSE Infinity(a.neg # b.neg))
  ELSE Fin(a.neg # b.neg,
           DivHalfUp(NScale(a.m, b.e + DECIMAL_PLACES), NScale(b.m, a.e)),
           DECIMAL_PLACES)

(* a.dp(n, BigNumber.ROUND_DOWN) *)
dpDown(a, n) ==
  IF a.k # "fin" \/ a.e <= n THEN a
  ELSE Fin(a.neg, NUnscale(a.m, a.e - n), n)

(* floor(sqrt(n)) by Newton's iteration from r >= sqrt(n) *)
RECURSIVE NSqrtIter(_, _)
RECURSIVE NSqrtNext(_, _, _)
NSqrtNext(n, r, r1) == IF NCmp(r1, r) >= 0 THEN r ELSE NSqrtIter(n, r1)

NSqrtIter(n, r) == NSqrtNext(n, r, NDivSmall(NAdd(r, NDiv(n, r)), 2))

NSqrt(n) == IF n = << >> THEN << >> ELSE NSqrtIter(n, NShift(<<1>>, (Len(n) + 1) \div 2))

(* q = floor(sqrt(N / D)); the nearest integer to sqrt(N / D), halves up *)
SqrtHalfUp(N, D, q) ==
  IF NCmp(NMul(NMul(NAdd(NMulSmall(q, 2), <<1>>), NAdd(NMulSmall(q, 2), <<1>>)), D),
          NMulSmall(N, 4)) <= 0
  THEN NAdd(q, <<1>>)
  ELSE q

SqrtScaled(N, D) == SqrtHalfUp(N, D, NSqrt(NDiv(N, D)))

(* the square root rounded to DECIMAL_PLACES places with ROUND_HALF_UP *)
sqrt(a) ==
  IF a.k = "nan" \/ (a.neg /\ ~isZero(a)) THEN NaN
  ELSE IF a.k = "inf" THEN a
  ELSE Fin(FALSE,
           SqrtScaled(NScale(a.m, Max(0, 2 * DECIMAL_PLACES - a.e)),
                      NScale(<<1>>, Max(0, a.e - 2 * DECIMAL_PLACES))),
           DECIMAL_PLACES)

(* bignumber.js valueOf(): the string JavaScript's relational operators see, *)
(* as a sequence of UTF-16 code units.                                       *)
TO_EXP_NEG == -7
TO_EXP_POS == 21

Chr(d) == 48 + d

RECURSIVE LimbDigits(_, _)
LimbDigits(m, i) ==
  IF i = 0 THEN << >>
  ELSE <<m[i] \div 100, (m[i] \div 10) % 10, m[i] % 10>> \o LimbDigits(m, i - 1)

RECURSIVE DropLeadingZeros(_)
DropLeadingZeros(d) ==
  IF d = << >> THEN d ELSE IF Head(d) = 0 THEN DropLeadingZeros(Tail(d)) ELSE d

RECURSIVE DropTrailingZeros(_)
DropTrailingZeros(d) ==
  IF d = << >> THEN d
  ELSE IF d[Len(d)] = 0 THEN DropTrailingZeros(SubSeq(d, 1, Len(d) - 1))
  ELSE d

(* the decimal digits of m, most significant first *)
DigitsOf(m) == DropLeadingZeros(LimbDigits(m, Len(m)))

Chars(d) == [i \in 1..Len(d) |-> Chr(d[i])]

toExponential(c, e) ==
  (IF Len(c) > 1 THEN <<Chr(c[1]), 46>> \o Chars(Tail(c)) ELSE Chars(c))
    \o (IF e < 0 THEN <<101, 45>> \o Chars(DigitsOf(NatOf(0 - e)))
        ELSE <<101, 43>> \o Chars(DigitsOf(NatOf(e))))

(* d: all digits of the mantissa, dp of them behind the point *)
toFixedPoint(d, dp) ==
  IF dp = 0 THEN Chars(d)
  ELSE IF dp >= Len(d) THEN <<48, 46>> \o [i \in 1..(dp - Len(d)) |-> 48] \o Chars(d)
  ELSE Chars(SubSeq(d, 1, Len(d) - dp)) \o <<46>> \o Chars(SubSeq(d, Len(d) - dp + 1, Len(d)))

DigitsToString(d, dp) ==
  IF Len(d) - 1 - dp <= TO_EXP_NEG \/ Len(d) - 1 - dp >= TO_EXP_POS
  THEN toExponential(DropTrailingZeros(d), Len(d) - 1 - dp)
  ELSE toFixedPoint(d, dp)

valueOf(a) ==
  IF a.k = "nan" THEN <<78, 97, 78>>
  ELSE IF a.k = "inf"
       THEN (IF a.neg THEN <<45>> ELSE << >>) \o <<73, 110, 102, 105, 110, 105, 116, 121>>
  ELSE IF a.m = << >> THEN <<48>>
  ELSE (IF a.neg THEN <<45>> ELSE << >>) \o DigitsToString(DigitsOf(a.m), a.e)

(* s > t for two JavaScript strings: code units compared left to right *)
RECURSIVE StringGreaterThan(_, _)
StringGreaterThan(s, t) ==
  IF s = << >> THEN FALSE
  ELSE IF t = << >> THEN TRUE
  ELSE IF Head(s) # Head(t) THEN Head(s) > Head(t)
  ELSE StringGreaterThan(Tail(s), Tail(t))

-----------------------------------------------------------------------------
(* MathLib.  A function that can throw returns a record whose err field is  *)
(* "OK" or the name of the error thrown; a function that works on the       *)
(* caller's internalBalances record also returns, in ib, that record as the *)
(* call leaves it (the record is the caller's own object, updated in        *)
(* place).                                                                  *)

InternalBalances(b, q, kLast) ==
  [baseTokenReserveQty |-> b, quoteTokenReserveQty |-> q, kLast |-> kLast]

(* assigns the three fields of the caller's record and returns that record *)
internalBalancesBNConverter(internalBalances) ==
  [baseTokenReserveQty  |-> internalBalances.baseTokenReserveQty,
   quoteTokenReserveQty |-> internalBalances.quoteTokenReserveQty,
   kLast                |-> internalBalances.kLast]

Throw(e, internalBalancesBN) == [err |-> e, val |-> NaN, ib |-> internalBalancesBN]

calculateQty(tokenAQty, tokenAReserveQty, tokenBReserveQty) ==
  IF isLessThanOrEqualTo(tokenAQty, ZERO) THEN [err |-> "INSUFFICIENT_QTY", val |-> NaN]
  ELSE IF isLessThanOrEqualTo(tokenAReserveQty, ZERO)
          \/ isLessThanOrEqualTo(tokenBReserveQty, ZERO)
       THEN [err |-> "INSUFFICIENT_LIQUIDITY", val |-> NaN]
  ELSE [err |-> "OK",
        val |-> dpDown(dividedBy(multipliedBy(tokenAQty, tokenBReserveQty),
                                 tokenAReserveQty), 18)]

(* line 883 without the swapped quantity in the denominator *)
qtyToReturnOverReserveOnly(tokenASwapQtyLessFee, tokenAReserveQty, tokenBReserveQty) ==
  dpDown(dividedBy(dpDown(multipliedBy(tokenASwapQtyLessFee, tokenBReserveQty), 18),
                   dpDown(multipliedBy(tokenAReserveQty, BASIS_POINTS), 18)),
         0)

qtyToReturn(tokenASwapQtyLessFee, tokenAReserveQty, tokenBReserveQty) ==
  dpDown(dividedBy(dpDown(multipliedBy(tokenASwapQtyLessFee, tokenBReserveQty), 18),
                   plus(dpDown(multipliedBy(tokenAReserveQty, BASIS_POINTS), 18),
                        tokenASwapQtyLessFee)),
         0)

calculateQtyToReturnAfterFees(tokenASwapQty, tokenAReserveQty, tokenBReserveQty, liquidityFeeInBasisPoints) ==
  qtyToReturn(dpDown(multipliedBy(tokenASwapQty,
                                  minus(BASIS_POINTS, liquidityFeeInBasisPoints)), 18),
              tokenAReserveQty, tokenBReserveQty)

quoteTokenQtyOut(baseTokenQty, quoteTokenQtyMin, internalBalancesBN, quoteTokenQty) ==
  IF isLessThanOrEqualTo(quoteTokenQty, quoteTokenQtyMin)
  THEN Throw("INSUFFICIENT_QUOTE_TOKEN_QTY", internalBalancesBN)
  ELSE [err |-> "OK", val |-> quoteTokenQty,
        ib |-> [internalBalancesBN EXCEPT
                  !.baseTokenReserveQty  = plus(internalBalancesBN.baseTokenReserveQty, baseTokenQty),
                  !.quoteTokenReserveQty = minus(internalBalancesBN.quoteTokenReserveQty, quoteTokenQty)]]

calculateQuoteTokenQtyBN(baseTokenQty, quoteTokenQtyMin, liquidityFeeInBasisPoints, internalBalancesBN) ==
  IF isLessThanOrEqualTo(baseTokenQty, ZERO) /\ isLessThanOrEqualTo(quoteTokenQtyMin, ZERO)
  THEN Throw("INSUFFICIENT_TOKEN_QTY", internalBalancesBN)
  ELSE quoteTokenQtyOut(baseTokenQty, quoteTokenQtyMin, internalBalancesBN,
         calculateQtyToReturnAfterFees(baseTokenQty,
                                       internalBalancesBN.baseTokenReserveQty,
                                       internalBalancesBN.quoteTokenReserveQty,
                                       liquidityFeeInBasisPoints))

calculateQuoteTokenQty(baseTokenQty, quoteTokenQtyMin, liquidityFeeInBasisPoints, internalBalances) ==
  calculateQuoteTokenQtyBN(baseTokenQty, quoteTokenQtyMin, liquidityFeeInBasisPoints,
                           internalBalancesBNConverter(internalBalances))

baseTokenQtyOut(quoteTokenQty, baseTokenQtyMin, internalBalancesBN, baseTokenQty) ==
  IF isLessThanOrEqualTo(baseTokenQty, baseTokenQtyMin)
  THEN Throw("INSUFFICIENT_BASE_TOKEN_QTY", internalBalancesBN)
  ELSE [err |-> "OK", val |-> baseTokenQty,
        ib |-> [internalBalancesBN EXCEPT
                  !.baseTokenReserveQty  = minus(internalBalancesBN.baseTokenReserveQty, baseTokenQty),
                  !.quoteTokenReserveQty = plus(internalBalancesBN.quoteTokenReserveQty, quoteTokenQty)]]

(* the quote reserve the external base reserve implies at the internal ratio *)
impliedQuoteTokenQty(baseTokenReserveQty, internalBalancesBN) ==
  dividedBy(baseTokenReserveQty,
            dividedBy(internalBalancesBN.baseTokenReserveQty,
                      internalBalancesBN.quoteTokenReserveQty))

calculateBaseTokenQtyBN(quoteTokenQty, baseTokenQtyMin, baseTokenReserveQty, liquidityFeeInBasisPoints, internalBalancesBN) ==
  IF isLessThan(baseTokenReserveQty, ZERO)
     /\ isLessThan(internalBalancesBN.baseTokenReserveQty, ZERO)
  THEN Throw("INSUFFICIENT_BASE_TOKEN_QTY", internalBalancesBN)
  ELSE IF isLessThan(baseTokenReserveQty, internalBalancesBN.baseTokenReserveQty)
  THEN baseTokenQtyOut(quoteTokenQty, baseTokenQtyMin, internalBalancesBN,
         calculateQtyToReturnAfterFees(quoteTokenQty,
                                       impliedQuoteTokenQty(baseTokenReserveQty, internalBalancesBN),
                                       baseTokenReserveQty,
                                       liquidityFeeInBasisPoints))
  ELSE baseTokenQtyOut(quoteTokenQty, baseTokenQtyMin, internalBalancesBN,
         calculateQtyToReturnAfterFees(quoteTokenQty,
                                       internalBalancesBN.quoteTokenReserveQty,
                                       internalBalancesBN.baseTokenReserveQty,
                                       liquidityFeeInBasisPoints))

calculateBaseTokenQty(quoteTokenQty, baseTokenQtyMin, baseTokenReserveQty, liquidityFeeInBasisPoints, internalBalances) ==
  calculateBaseTokenQtyBN(quoteTokenQty, baseTokenQtyMin, baseTokenReserveQty,
                          liquidityFeeInBasisPoints,
                          internalBalancesBNConverter(internalBalances))

(* --- the integer implementations of base out for quote in (part_001):    *)
(* ethers BigNumber arithmetic on integers; div truncates and throws on a     *)
(* zero divisor --- *)

WAD == BNe(1, 18)

ethersDiv(a, b) ==
  IF isZero(b) THEN [err |-> "DIVISION_BY_ZERO", val |-> NaN]
  ELSE [err |-> "OK", val |-> Fin(FALSE, NDiv(a.m, b.m), 0)]

(* lines 184-196 and 280-292 *)
Ethers_calculateQtyToReturnAfterFees(tokenASwapQty, tokenAReserveQty, tokenBReserveQty, fee) ==
  ethersDiv(multipliedBy(multipliedBy(tokenASwapQty, minus(BASIS_POINTS, fee)), tokenBReserveQty),
            plus(multipliedBy(tokenAReserveQty, BASIS_POINTS),
                 multipliedBy(tokenASwapQty, minus(BASIS_POINTS, fee))))

(* lines 294-298: b.div(2) has a divisor of 2 and cannot throw *)
wDiv(a, b) ==
  ethersDiv(plus(multipliedBy(a, WAD), ethersDiv(b, BN(2)).val), b)

getBaseQtyAtImplied(quoteTokenQty, baseTokenReserveQty, fee, impliedQty) ==
  IF impliedQty.err # "OK" THEN impliedQty
  ELSE Ethers_calculateQtyToReturnAfterFees(quoteTokenQty, impliedQty.val,
                                            baseTokenReserveQty, fee)

(* lines 140-151 *)
getBaseQtyAtRatio(quoteTokenQty, baseTokenReserveQty, fee, pricingRatio) ==
  IF pricingRatio.err # "OK" THEN pricingRatio
  ELSE getBaseQtyAtImplied(quoteTokenQty, baseTokenReserveQty, fee,
         ethersDiv(multipliedBy(baseTokenReserveQty, WAD), pricingRatio.val))

(* lines 136-158: the plain WAD-scaled variant *)
getBaseQtyFromQuoteQty(quoteTokenQty, baseTokenReserveQty, fee, internalBalances) ==
  IF isLessThan(baseTokenReserveQty, internalBalances.baseTokenReserveQty)
  THEN getBaseQtyAtRatio(quoteTokenQty, baseTokenReserveQty, fee,
         ethersDiv(multipliedBy(internalBalances.baseTokenReserveQty, WAD),
                   internalBalances.quoteTokenReserveQty))
  ELSE Ethers_calculateQtyToReturnAfterFees(quoteTokenQty, internalBalances.quoteTokenReserveQty,
                                            internalBalances.baseTokenReserveQty, fee)

(* lines 226-243 *)
getBaseQtyAtWDivRatio(quoteTokenQty, baseTokenReserveQty, fee, pricingRatio) ==
  IF pricingRatio.err # "OK" THEN pricingRatio
  ELSE getBaseQtyAtImplied(quoteTokenQty, baseTokenReserveQty, fee,
                           wDiv(baseTokenReserveQty, pricingRatio.val))

(* lines 222-251: the variant that divides with wDiv *)
getBaseQtyFromQuoteQtyWDiv(quoteTokenQty, baseTokenReserveQty, fee, internalBalances) ==
  IF isLessThan(baseTokenReserveQty, internalBalances.baseTokenReserveQty)
  THEN getBaseQtyAtWDivRatio(quoteTokenQty, baseTokenReserveQty, fee,
         wDiv(internalBalances.baseTokenReserveQty, internalBalances.quoteTokenReserveQty))
  ELSE Ethers_calculateQtyToReturnAfterFees(quoteTokenQty, internalBalances.quoteTokenReserveQty,
                                            internalBalances.baseTokenReserveQty, fee)

(* --- exchange rate, fees, output less fees, price impact, redemption --- *)

calculateExchangeRate(inputTokenReserveQty, outputTokenReserveQty) ==
  IF isNaN(inputTokenReserveQty) \/ isNaN(outputTokenReserveQty)
  THEN [err |-> "NAN_ERROR", val |-> NaN]
  ELSE IF isNegative(inputTokenReserveQty) \/ isNegative(outputTokenReserveQty)
  THEN [err |-> "NEGATIVE_INPUT", val |-> NaN]
  ELSE IF isEqualTo(inputTokenReserveQty, ZERO) \/ isEqualTo(outputTokenReserveQty, ZERO)
  THEN [err |-> "INSUFFICIENT_LIQUIDITY", val |-> NaN]
  ELSE [err |-> "OK", val |-> dividedBy(inputTokenReserveQty, outputTokenReserveQty)]

calculateFees(feesInBasisPoints, swapAmount) ==
  IF isNaN(feesInBasisPoints) \/ isNaN(swapAmount)
  THEN [err |-> "NAN_ERROR", val |-> NaN]
  ELSE IF isLessThan(feesInBasisPoints, ZERO) \/ isLessThan(swapAmount, ZERO)
  THEN [err |-> "NEGATIVE_INPUT", val |-> NaN]
  ELSE [err |-> "OK",
        val |-> multipliedBy(dividedBy(feesInBasisPoints, BASIS_POINTS), swapAmount)]

(* lines 756-766, 795-805: the checks calculateOutputAmountLessFees and *)
(* calculatePriceImpact make on their five arguments                     *)
swapInputError(inputTokenAmount, inputTokenReserveQty, outputTokenReserveQty, slippagePercent, feeAmount) ==
  IF isNaN(inputTokenAmount) \/ isNaN(inputTokenReserveQty) \/ isNaN(outputTokenReserveQty)
     \/ isNaN(slippagePercent) \/ isNaN(feeAmount)
  THEN "NAN_ERROR"
  ELSE IF isNegative(inputTokenAmount) \/ isNegative(inputTokenReserveQty)
          \/ isNegative(outputTokenReserveQty) \/ isNegative(slippagePercent)
          \/ isNegative(feeAmount)
  THEN "NEGATIVE_INPUT"
  ELSE IF isEqualTo(inputTokenReserveQty, ZERO) \/ isEqualTo(outputTokenReserveQty, ZERO)
  THEN "INSUFFICIENT_LIQUIDITY"
  ELSE "OK"

outputAmountLessSlippage(inputTokenAmount, inputTokenReserveQty, outputTokenReserveQty, slippagePercent, feeAmount) ==
  multipliedBy(calculateQtyToReturnAfterFees(inputTokenAmount, inputTokenReserveQty,
                                             outputTokenReserveQty, feeAmount),
               minus(BN(1), dividedBy(slippagePercent, BN(100))))

calculateOutputAmountLessFeesChecked(inputTokenAmount, inputTokenReserveQty, outputTokenReserveQty, slippagePercent, feeAmount, e) ==
  IF e # "OK" THEN [err |-> e, val |-> NaN]
  ELSE [err |-> "OK",
        val |-> outputAmountLessSlippage(inputTokenAmount, inputTokenReserveQty,
                                         outputTokenReserveQty, slippagePercent, feeAmount)]

calculateOutputAmountLessFees(inputTokenAmount, inputTokenReserveQty, outputTokenReserveQty, slippagePercent, feeAmount) ==
  calculateOutputAmountLessFeesChecked(inputTokenAmount, inputTokenReserveQty,
    outputTokenReserveQty, slippagePercent, feeAmount,
    swapInputError(inputTokenAmount, inputTokenReserveQty, outputTokenReserveQty,
                   slippagePercent, feeAmount))

(* The input that buys a given output: mathLib's                             *)
(* calculateInputAmountFromOutputAmount, which Exchange imports and calls     *)
(* (part_000 lines 7 and 156); its closed form is                             *)
(*   numerator = out * inReserve * 10000                                      *)
(*   denominator = (out + outReserve * slip / 100 - outReserve) * (10000 - fee) *)
(*   inQty = |numerator / denominator|                                        *)
inputAmountOverTerm(outputTokenAmount, inputTokenReserveQty, liquidityFeeInBasisPoints, outputSlippageTerm) ==
  abs(dividedBy(dpDown(multipliedBy(multipliedBy(outputTokenAmount, inputTokenReserveQty),
                                    BASIS_POINTS), 18),
                multipliedBy(outputSlippageTerm,
                             minus(BASIS_POINTS, liquidityFeeInBasisPoints))))

calculateInputAmountFromOutputAmount(outputTokenAmount, inputTokenReserveQty, outputTokenReserveQty, slippagePercent, liquidityFeeInBasisPoints) ==
  inputAmountOverTerm(outputTokenAmount, inputTokenReserveQty, liquidityFeeInBasisPoints,
    dpDown(minus(plus(outputTokenAmount,
                      dpDown(multipliedBy(outputTokenReserveQty,
                                          dividedBy(slippagePercent, BN(100))), 18)),
                 outputTokenReserveQty), 18))

(* lines 821-826 *)
priceImpactOfPrices(initialPrice, finalPrice) ==
  IF finalPrice.err # "OK" THEN finalPrice
  ELSE [err |-> "OK",
        val |-> multipliedBy(dividedBy(minus(finalPrice.val, initialPrice), initialPrice),
                             BN(100))]

(* lines 807-818 *)
priceImpactAfter(inputTokenAmount, inputTokenReserveQty, outputTokenReserveQty, initialPrice, outputTokenAmount) ==
  IF initialPrice.err # "OK" THEN initialPrice
  ELSE IF outputTokenAmount.err # "OK" THEN outputTokenAmount
  ELSE priceImpactOfPrices(initialPrice.val,
         calculateExchangeRate(plus(inputTokenReserveQty, inputTokenAmount),
                               minus(outputTokenReserveQty, outputTokenAmount.val)))

calculatePriceImpactChecked(inputTokenAmount, inputTokenReserveQty, outputTokenReserveQty, slippagePercent, feeAmount, e) ==
  IF e # "OK" THEN [err |-> e, val |-> NaN]
  ELSE priceImpactAfter(inputTokenAmount, inputTokenReserveQty, outputTokenReserveQty,
         calculateExchangeRate(inputTokenReserveQty, outputTokenReserveQty),
         calculateOutputAmountLessFees(inputTokenAmount, inputTokenReserveQty,
                                       outputTokenReserveQty, slippagePercent, feeAmount))

calculatePriceImpact(inputTokenAmount, inputTokenReserveQty, outputTokenReserveQty, slippagePercent, feeAmount) ==
  calculatePriceImpactChecked(inputTokenAmount, inputTokenReserveQty,
    outputTokenReserveQty, slippagePercent, feeAmount,
    swapInputError(inputTokenAmount, inputTokenReserveQty, outputTokenReserveQty,
                   slippagePercent, feeAmount))

tokenAmountsSwapped(baseTokenReserveQty, quoteTokenReserveQty, lpRatio, slippageMultiplier) ==
  [err |-> "OK",
   quoteTokenReceived |-> multipliedBy(multipliedBy(baseTokenReserveQty, lpRatio),
                                       slippageMultiplier),
   baseTokenReceived  |-> multipliedBy(multipliedBy(quoteTokenReserveQty, lpRatio),
                                       slippageMultiplier)]

(* lines 991-1005 *)
tokenAmountsAtRatio(baseTokenReserveQty, quoteTokenReserveQty, lpRatio, slippageMultiplier) ==
  [err |-> "OK",
   quoteTokenReceived |-> multipliedBy(multipliedBy(quoteTokenReserveQty, lpRatio),
                                       slippageMultiplier),
   baseTokenReceived  |-> multipliedBy(multipliedBy(baseTokenReserveQty, lpRatio),
                                       slippageMultiplier)]

calculateTokenAmountsFromLPTokens(lpTokenQtyToRedeem, slippagePercent, baseTokenReserveQty, quoteTokenReserveQty, totalLPTokenSupply) ==
  IF isNaN(lpTokenQtyToRedeem) \/ isNaN(slippagePercent) \/ isNaN(baseTokenReserveQty)
     \/ isNaN(quoteTokenReserveQty) \/ isNaN(totalLPTokenSupply)
  THEN [err |-> "NAN_ERROR", quoteTokenReceived |-> NaN, baseTokenReceived |-> NaN]
  ELSE IF isLessThan(lpTokenQtyToRedeem, ZERO) \/ isLessThan(slippagePercent, ZERO)
          \/ isLessThan(baseTokenReserveQty, ZERO) \/ isLessThan(quoteTokenReserveQty, ZERO)
          \/ isLessThan(totalLPTokenSupply, ZERO)
  THEN [err |-> "NEGATIVE_INPUT", quoteTokenReceived |-> NaN, baseTokenReceived |-> NaN]
  ELSE tokenAmountsAtRatio(baseTokenReserveQty, quoteTokenReserveQty,
                           dividedBy(lpTokenQtyToRedeem, totalLPTokenSupply),
                           minus(BN(1), dividedBy(slippagePercent, BN(100))))

(* --- Exchange.calculatePriceImpact, on the reserves and the fee the exchange *)
(* reads from its contract --- *)

Exchange_priceImpactOfOutput(inputTokenAmount, calculatedOutputAmountLessFeesLessSlippage, calculatedExchangeRate) ==
  IF calculatedOutputAmountLessFeesLessSlippage.err # "OK"
  THEN calculatedOutputAmountLessFeesLessSlippage
  ELSE IF calculatedExchangeRate.err # "OK" THEN calculatedExchangeRate
  ELSE [err |-> "OK",
        val |-> minus(BN(100),
                      multipliedBy(dividedBy(calculatedOutputAmountLessFeesLessSlippage.val,
                                             dividedBy(inputTokenAmount,
                                                       calculatedExchangeRate.val)),
                                   BN(100)))]

Exchange_calculatePriceImpact(inputTokenAmount, inputTokenReserveQty, outputTokenReserveQty, slippagePercent, liquidityFee) ==
  Exchange_priceImpactOfOutput(inputTokenAmount,
    calculateOutputAmountLessFees(inputTokenAmount, inputTokenReserveQty,
                                  outputTokenReserveQty, slippagePercent, liquidityFee),
    calculateExchangeRate(inputTokenReserveQty, outputTokenReserveQty))

(* What the add-liquidity functions return: the source's return object (a   *)
(* quantity the object of a function does not have is ZERO), err and ib as   *)
(* above.                                                                    *)
TokenQtys(baseTokenQty, quoteTokenQty, liquidityTokenQty, liquidityTokenFeeQty, internalBalancesBN) ==
  [err |-> "OK", baseTokenQty |-> baseTokenQty, quoteTokenQty |-> quoteTokenQty,
   liquidityTokenQty |-> liquidityTokenQty, liquidityTokenFeeQty |-> liquidityTokenFeeQty,
   ib |-> internalBalancesBN]

ThrowQtys(e, internalBalancesBN) ==
  [err |-> e, baseTokenQty |-> NaN, quoteTokenQty |-> NaN, liquidityTokenQty |-> NaN,
   liquidityTokenFeeQty |-> NaN, ib |-> internalBalancesBN]

liquidityTokenFeeQtyNoFactor(totalSupplyOfLiquidityTokens, rootK, rootKLast) ==
  IF isGreaterThan(rootK, rootKLast)
  THEN dividedBy(multipliedBy(totalSupplyOfLiquidityTokens, minus(rootK, rootKLast)),
                 plus(rootK, rootKLast))
  ELSE ZERO

liquidityTokenFeeQty(totalSupplyOfLiquidityTokens, rootK, rootKLast) ==
  IF isGreaterThan(rootK, rootKLast)
  THEN dividedBy(multipliedBy(totalSupplyOfLiquidityTokens, minus(rootK, rootKLast)),
                 plus(multipliedBy(rootK, BN(5)), rootKLast))
  ELSE ZERO

calculateLiquidityTokenFees(totalSupplyOfLiquidityTokens, internalBalances) ==
  liquidityTokenFeeQty(totalSupplyOfLiquidityTokens,
                       sqrt(multipliedBy(internalBalances.baseTokenReserveQty,
                                         internalBalances.quoteTokenReserveQty)),
                       sqrt(internalBalances.kLast))

calculateLiquidityTokenQtyForDoubleAssetEntry(totalSupplyOfLiquidityTokens, quoteTokenQty, quoteTokenReserveBalance) ==
  dpDown(dividedBy(dpDown(multipliedBy(quoteTokenQty, totalSupplyOfLiquidityTokens), 18),
                   quoteTokenReserveBalance),
         18)

altWGamma(tokenQtyAToAdd, internalTokenAReserveQty, tokenBDecayChange, tokenBDecay) ==
  dpDown(dividedBy(dividedBy(multipliedBy(dividedBy(tokenQtyAToAdd, internalTokenAReserveQty),
                                          tokenBDecayChange),
                             tokenBDecay),
                   BN(2)),
         18)

liquidityTokenQtyForGamma(totalSupplyOfLiquidityTokens, gamma) ==
  dpDown(dividedBy(multipliedBy(totalSupplyOfLiquidityTokens, gamma), minus(BN(1), gamma)), 0)

calculateLiquidityTokenQtyForSingleAssetEntry(totalSupplyOfLiquidityTokens, tokenQtyAToAdd, internalTokenAReserveQty, tokenBDecayChange, tokenBDecay) ==
  liquidityTokenQtyForGamma(totalSupplyOfLiquidityTokens,
    altWGamma(tokenQtyAToAdd, internalTokenAReserveQty, tokenBDecayChange, tokenBDecay))

isSufficientDecayPresent(baseTokenReserveQty, internalBalances) ==
  isGreaterThan(dividedBy(abs(minus(baseTokenReserveQty, internalBalances.baseTokenReserveQty)),
                          dividedBy(internalBalances.baseTokenReserveQty,
                                    internalBalances.quoteTokenReserveQty)),
                BN(1))

(* --- calculateAddBaseTokenLiquidityQuantities --- *)

addBaseIssue(baseTokenQty, totalSupplyOfLiquidityTokens, internalBalancesBN, quoteTokenQtyDecayChange, quoteTokenDecay) ==
  IF isLessThanOrEqualTo(quoteTokenQtyDecayChange, ZERO)
  THEN ThrowQtys("INSUFFICIENT_CHANGE_IN_DECAY", internalBalancesBN)
  ELSE IF isLessThanOrEqualTo(quoteTokenDecay, ZERO)
  THEN ThrowQtys("NO_QUOTE_DECAY", internalBalancesBN)
  ELSE TokenQtys(baseTokenQty, ZERO,
                 calculateLiquidityTokenQtyForSingleAssetEntry(
                   totalSupplyOfLiquidityTokens, baseTokenQty,
                   internalBalancesBN.baseTokenReserveQty,
                   quoteTokenQtyDecayChange, quoteTokenDecay),
                 ZERO, internalBalancesBN)

addBaseAtRatio(baseTokenQty, maxBaseTokenQty, totalSupplyOfLiquidityTokens, internalBalancesBN, internalQuoteToBaseTokenRatio) ==
  addBaseIssue(baseTokenQty, totalSupplyOfLiquidityTokens, internalBalancesBN,
               multipliedBy(baseTokenQty, internalQuoteToBaseTokenRatio),
               multipliedBy(maxBaseTokenQty, internalQuoteToBaseTokenRatio))

(* line 56 with a strict comparison *)
addBaseUpToStrictMin(baseTokenQtyDesired, baseTokenQtyMin, totalSupplyOfLiquidityTokens, internalBalancesBN, maxBaseTokenQty) ==
  IF isGreaterThan(baseTokenQtyMin, maxBaseTokenQty)
  THEN ThrowQtys("INSUFFICIENT_DECAY", internalBalancesBN)
  ELSE addBaseAtRatio(IF isGreaterThan(baseTokenQtyDesired, maxBaseTokenQty)
                      THEN maxBaseTokenQty ELSE baseTokenQtyDesired,
                      maxBaseTokenQty, totalSupplyOfLiquidityTokens, internalBalancesBN,
                      dividedBy(internalBalancesBN.quoteTokenReserveQty,
                                internalBalancesBN.baseTokenReserveQty))

addBaseUpTo(baseTokenQtyDesired, baseTokenQtyMin, totalSupplyOfLiquidityTokens, internalBalancesBN, maxBaseTokenQty) ==
  IF isGreaterThanOrEqualTo(baseTokenQtyMin, maxBaseTokenQty)
  THEN ThrowQtys("INSUFFICIENT_DECAY", internalBalancesBN)
  ELSE addBaseAtRatio(IF isGreaterThan(baseTokenQtyDesired, maxBaseTokenQty)
                      THEN maxBaseTokenQty ELSE baseTokenQtyDesired,
                      maxBaseTokenQty, totalSupplyOfLiquidityTokens, internalBalancesBN,
                      dividedBy(internalBalancesBN.quoteTokenReserveQty,
                                internalBalancesBN.baseTokenReserveQty))

calculateAddBaseTokenLiquidityQuantitiesBN(baseTokenQtyDesired, baseTokenQtyMin, baseTokenReserveQty, totalSupplyOfLiquidityTokens, internalBalancesBN) ==
  addBaseUpTo(baseTokenQtyDesired, baseTokenQtyMin, totalSupplyOfLiquidityTokens,
              internalBalancesBN,
              minus(internalBalancesBN.baseTokenReserveQty, baseTokenReserveQty))

calculateAddBaseTokenLiquidityQuantities(baseTokenQtyDesired, baseTokenQtyMin, baseTokenReserveQty, totalSupplyOfLiquidityTokens, internalBalances) ==
  calculateAddBaseTokenLiquidityQuantitiesBN(baseTokenQtyDesired, baseTokenQtyMin,
    baseTokenReserveQty, totalSupplyOfLiquidityTokens,
    internalBalancesBNConverter(internalBalances))

(* --- calculateAddQuoteTokenLiquidityQuantities --- *)

addQuoteIssue(quoteTokenQty, totalSupplyOfLiquidityTokens, internalBalancesBN, baseTokenDecay, baseTokenQtyDecayChange) ==
  TokenQtys(ZERO, quoteTokenQty,
            calculateLiquidityTokenQtyForSingleAssetEntry(
              totalSupplyOfLiquidityTokens, quoteTokenQty,
              internalBalancesBN.quoteTokenReserveQty,
              baseTokenQtyDecayChange, baseTokenDecay),
            ZERO, internalBalancesBN)

addQuoteChange(quoteTokenQty, totalSupplyOfLiquidityTokens, internalBalancesBN, baseTokenDecay, baseTokenQtyDecayChange) ==
  IF isLessThanOrEqualTo(baseTokenQtyDecayChange, ZERO)
  THEN ThrowQtys("INSUFFICIENT_DECAY", internalBalancesBN)
  ELSE addQuoteIssue(quoteTokenQty, totalSupplyOfLiquidityTokens,
         [internalBalancesBN EXCEPT
            !.baseTokenReserveQty  = plus(internalBalancesBN.baseTokenReserveQty,
                                          baseTokenQtyDecayChange),
            !.quoteTokenReserveQty = plus(internalBalancesBN.quoteTokenReserveQty,
                                          quoteTokenQty)],
         baseTokenDecay, baseTokenQtyDecayChange)

(* line 327 compares the two BigNumber objects with JavaScript's >, which *)
(* compares their valueOf() strings                                        *)
addQuoteUpTo(quoteTokenQtyDesired, quoteTokenQtyMin, totalSupplyOfLiquidityTokens, internalBalancesBN, baseTokenDecay, internalBaseTokenToQuoteTokenRatio, maxQuoteTokenQty) ==
  IF isGreaterThanOrEqualTo(quoteTokenQtyMin, maxQuoteTokenQty)
  THEN ThrowQtys("INSUFFICIENT_DECAY", internalBalancesBN)
  ELSE IF StringGreaterThan(valueOf(quoteTokenQtyDesired), valueOf(maxQuoteTokenQty))
  THEN addQuoteChange(maxQuoteTokenQty, totalSupplyOfLiquidityTokens, internalBalancesBN,
                      baseTokenDecay,
                      multipliedBy(maxQuoteTokenQty, internalBaseTokenToQuoteTokenRatio))
  ELSE addQuoteChange(quoteTokenQtyDesired, totalSupplyOfLiquidityTokens, internalBalancesBN,
                      baseTokenDecay,
                      multipliedBy(quoteTokenQtyDesired, internalBaseTokenToQuoteTokenRatio))

addQuoteAtRatio(quoteTokenQtyDesired, quoteTokenQtyMin, totalSupplyOfLiquidityTokens, internalBalancesBN, baseTokenDecay, internalBaseTokenToQuoteTokenRatio) ==
  addQuoteUpTo(quoteTokenQtyDesired, quoteTokenQtyMin, totalSupplyOfLiquidityTokens,
               internalBalancesBN, baseTokenDecay, internalBaseTokenToQuoteTokenRatio,
               dividedBy(baseTokenDecay, internalBaseTokenToQuoteTokenRatio))

calculateAddQuoteTokenLiquidityQuantitiesBN(quoteTokenQtyDesired, quoteTokenQtyMin, baseTokenReserveQty, totalSupplyOfLiquidityTokens, internalBalancesBN) ==
  addQuoteAtRatio(quoteTokenQtyDesired, quoteTokenQtyMin, totalSupplyOfLiquidityTokens,
                  internalBalancesBN,
                  minus(baseTokenReserveQty, internalBalancesBN.baseTokenReserveQty),
                  dividedBy(internalBalancesBN.baseTokenReserveQty,
                            internalBalancesBN.quoteTokenReserveQty))

calculateAddQuoteTokenLiquidityQuantities(quoteTokenQtyDesired, quoteTokenQtyMin, baseTokenReserveQty, totalSupplyOfLiquidityTokens, internalBalances) ==
  calculateAddQuoteTokenLiquidityQuantitiesBN(quoteTokenQtyDesired, quoteTokenQtyMin,
    baseTokenReserveQty, totalSupplyOfLiquidityTokens,
    internalBalancesBNConverter(internalBalances))

(* --- calculateAddTokenPairLiquidityQuantities --- *)

addPairIssue(baseTokenQty, quoteTokenQty, quoteTokenReserveQty, totalSupplyOfLiquidityTokens, internalBalancesBN) ==
  TokenQtys(baseTokenQty, quoteTokenQty,
            calculateLiquidityTokenQtyForDoubleAssetEntry(totalSupplyOfLiquidityTokens,
                                                          quoteTokenQty, quoteTokenReserveQty),
            ZERO,
            [internalBalancesBN EXCEPT
               !.baseTokenReserveQty  = plus(baseTokenQty, internalBalancesBN.baseTokenReserveQty),
               !.quoteTokenReserveQty = plus(quoteTokenQty, internalBalancesBN.quoteTokenReserveQty)])

addPairFromQuote(quoteTokenQtyDesired, baseTokenQtyMin, quoteTokenReserveQty, totalSupplyOfLiquidityTokens, internalBalancesBN, requiredBaseTokenQty) ==
  IF requiredBaseTokenQty.err # "OK" THEN ThrowQtys(requiredBaseTokenQty.err, internalBalancesBN)
  ELSE IF isLessThan(requiredBaseTokenQty.val, baseTokenQtyMin)
  THEN ThrowQtys("INSUFFICIENT_BASE_QTY", internalBalancesBN)
  ELSE addPairIssue(requiredBaseTokenQty.val, quoteTokenQtyDesired, quoteTokenReserveQty,
                    totalSupplyOfLiquidityTokens, internalBalancesBN)

addPairFromBase(baseTokenQtyDesired, quoteTokenQtyDesired, baseTokenQtyMin, quoteTokenQtyMin, quoteTokenReserveQty, totalSupplyOfLiquidityTokens, internalBalancesBN, requiredQuoteTokenQty) ==
  IF requiredQuoteTokenQty.err # "OK"
  THEN ThrowQtys(requiredQuoteTokenQty.err, internalBalancesBN)
  ELSE IF isLessThanOrEqualTo(requiredQuoteTokenQty.val, quoteTokenQtyDesired)
  THEN (IF isLessThan(requiredQuoteTokenQty.val, quoteTokenQtyMin)
        THEN ThrowQtys("INSUFFICIENT_QUOTE_QTY", internalBalancesBN)
        ELSE addPairIssue(baseTokenQtyDesired, requiredQuoteTokenQty.val, quoteTokenReserveQty,
                          totalSupplyOfLiquidityTokens, internalBalancesBN))
  ELSE addPairFromQuote(quoteTokenQtyDesired, baseTokenQtyMin, quoteTokenReserveQty,
                        totalSupplyOfLiquidityTokens, internalBalancesBN,
                        calculateQty(quoteTokenQtyDesired,
                                     internalBalancesBN.quoteTokenReserveQty,
                                     internalBalancesBN.baseTokenReserveQty))

calculateAddTokenPairLiquidityQuantitiesBN(baseTokenQtyDesired, quoteTokenQtyDesired, baseTokenQtyMin, quoteTokenQtyMin, quoteTokenReserveQty, totalSupplyOfLiquidityTokens, internalBalancesBN) ==
  addPairFromBase(baseTokenQtyDesired, quoteTokenQtyDesired, baseTokenQtyMin, quoteTokenQtyMin,
                  quoteTokenReserveQty, totalSupplyOfLiquidityTokens, internalBalancesBN,
                  calculateQty(baseTokenQtyDesired,
                               internalBalancesBN.baseTokenReserveQty,
                               internalBalancesBN.quoteTokenReserveQty))

calculateAddTokenPairLiquidityQuantities(baseTokenQtyDesired, quoteTokenQtyDesired, baseTokenQtyMin, quoteTokenQtyMin, quoteTokenReserveQty, totalSupplyOfLiquidityTokens, internalBalances) ==
  calculateAddTokenPairLiquidityQuantitiesBN(baseTokenQtyDesired, quoteTokenQtyDesired,
    baseTokenQtyMin, quoteTokenQtyMin, quoteTokenReserveQty, totalSupplyOfLiquidityTokens,
    internalBalancesBNConverter(internalBalances))

(* --- calculateAddLiquidityQuantities --- *)

addLiquidityValidate(baseTokenQtyMin, quoteTokenQtyMin, tokenQtys) ==
  IF isLessThan(tokenQtys.baseTokenQty, baseTokenQtyMin)
  THEN ThrowQtys("INSUFFICIENT_BASE_QTY", tokenQtys.ib)
  ELSE IF isLessThan(tokenQtys.quoteTokenQty, quoteTokenQtyMin)
  THEN ThrowQtys("INSUFFICIENT_QUOTE_QTY", tokenQtys.ib)
  ELSE tokenQtys

(* lines 226-238: the residual pair entry added to the decay entry *)
addLiquidityResidual(baseTokenQtyMin, quoteTokenQtyMin, feeQty, fromDecay, fetchTokenQty) ==
  IF fetchTokenQty.err # "OK" THEN fetchTokenQty
  ELSE addLiquidityValidate(baseTokenQtyMin, quoteTokenQtyMin,
         TokenQtys(plus(fetchTokenQty.baseTokenQty, fromDecay.baseTokenQty),
                   plus(fetchTokenQty.quoteTokenQty, fromDecay.quoteTokenQty),
                   plus(fetchTokenQty.liquidityTokenQty, fromDecay.liquidityTokenQty),
                   feeQty, fetchTokenQty.ib))

addLiquidityAfterDecayEither(baseTokenQtyDesired, quoteTokenQtyDesired, baseTokenQtyMin, quoteTokenQtyMin, quoteTokenReserveQty, totalSupplyOfLiquidityTokens, feeQty, fromDecay) ==
  IF fromDecay.err # "OK" THEN fromDecay
  ELSE IF isLessThan(fromDecay.quoteTokenQty, quoteTokenQtyDesired)
          \/ isLessThan(fromDecay.baseTokenQty, baseTokenQtyDesired)
  THEN addLiquidityResidual(baseTokenQtyMin, quoteTokenQtyMin, feeQty, fromDecay,
         calculateAddTokenPairLiquidityQuantities(
           minus(baseTokenQtyDesired, fromDecay.baseTokenQty),
           minus(quoteTokenQtyDesired, fromDecay.quoteTokenQty),
           ZERO, ZERO,
           plus(quoteTokenReserveQty, fromDecay.quoteTokenQty),
           plus(totalSupplyOfLiquidityTokens, fromDecay.liquidityTokenQty),
           fromDecay.ib))
  ELSE [fromDecay EXCEPT !.liquidityTokenFeeQty = feeQty]

(* lines 213-242: fromDecay is the result of the single-asset entry *)
addLiquidityAfterDecay(baseTokenQtyDesired, quoteTokenQtyDesired, baseTokenQtyMin, quoteTokenQtyMin, quoteTokenReserveQty, totalSupplyOfLiquidityTokens, feeQty, fromDecay) ==
  IF fromDecay.err # "OK" THEN fromDecay
  ELSE IF isLessThan(fromDecay.quoteTokenQty, quoteTokenQtyDesired)
          /\ isLessThan(fromDecay.baseTokenQty, baseTokenQtyDesired)
  THEN addLiquidityResidual(baseTokenQtyMin, quoteTokenQtyMin, feeQty, fromDecay,
         calculateAddTokenPairLiquidityQuantities(
           minus(baseTokenQtyDesired, fromDecay.baseTokenQty),
           minus(quoteTokenQtyDesired, fromDecay.quoteTokenQty),
           ZERO, ZERO,
           plus(quoteTokenReserveQty, fromDecay.quoteTokenQty),
           plus(totalSupplyOfLiquidityTokens, fromDecay.liquidityTokenQty),
           fromDecay.ib))
  ELSE [fromDecay EXCEPT !.liquidityTokenFeeQty = feeQty]

(* lines 247-260 *)
addLiquidityPairOnly(feeQty, fetchTokenQtys) ==
  IF fetchTokenQtys.err # "OK" THEN fetchTokenQtys
  ELSE [fetchTokenQtys EXCEPT !.liquidityTokenFeeQty = feeQty]

(* lines 167-262: totalSupplyOfLiquidityTokens includes the fee to be minted *)
addLiquidityWithSupply(baseTokenQtyDesired, quoteTokenQtyDesired, baseTokenQtyMin, quoteTokenQtyMin, baseTokenReserveQty, quoteTokenReserveQty, totalSupplyOfLiquidityTokens, feeQty, internalBalancesBN) ==
  IF isSufficientDecayPresent(baseTokenReserveQty, internalBalancesBN)
  THEN IF isGreaterThan(baseTokenReserveQty, internalBalancesBN.baseTokenReserveQty)
       THEN addLiquidityAfterDecay(baseTokenQtyDesired, quoteTokenQtyDesired, baseTokenQtyMin,
              quoteTokenQtyMin, quoteTokenReserveQty, totalSupplyOfLiquidityTokens, feeQty,
              calculateAddQuoteTokenLiquidityQuantities(quoteTokenQtyDesired, ZERO,
                baseTokenReserveQty, totalSupplyOfLiquidityTokens, internalBalancesBN))
       ELSE addLiquidityAfterDecay(baseTokenQtyDesired, quoteTokenQtyDesired, baseTokenQtyMin,
              quoteTokenQtyMin, quoteTokenReserveQty, totalSupplyOfLiquidityTokens, feeQty,
              calculateAddBaseTokenLiquidityQuantities(baseTokenQtyDesired, ZERO,
                baseTokenReserveQty, totalSupplyOfLiquidityTokens, internalBalancesBN))
  ELSE addLiquidityPairOnly(feeQty,
         calculateAddTokenPairLiquidityQuantities(baseTokenQtyDesired, quoteTokenQtyDesired,
           baseTokenQtyMin, quoteTokenQtyMin, quoteTokenReserveQty,
           totalSupplyOfLiquidityTokens, internalBalancesBN))

addLiquidityWithFeeNotMinted(baseTokenQtyDesired, quoteTokenQtyDesired, baseTokenQtyMin, quoteTokenQtyMin, baseTokenReserveQty, quoteTokenReserveQty, totalSupplyOfLiquidityTokens, internalBalancesBN, feeQty) ==
  addLiquidityWithSupply(baseTokenQtyDesired, quoteTokenQtyDesired, baseTokenQtyMin,
                         quoteTokenQtyMin, baseTokenReserveQty, quoteTokenReserveQty,
                         totalSupplyOfLiquidityTokens, feeQty,
                         internalBalancesBN)

(* lines 155-161 *)
addLiquidityWithFee(baseTokenQtyDesired, quoteTokenQtyDesired, baseTokenQtyMin, quoteTokenQtyMin, baseTokenReserveQty, quoteTokenReserveQty, totalSupplyOfLiquidityTokens, internalBalancesBN, feeQty) ==
  addLiquidityWithSupply(baseTokenQtyDesired, quoteTokenQtyDesired, baseTokenQtyMin,
                         quoteTokenQtyMin, baseTokenReserveQty, quoteTokenReserveQty,
                         plus(feeQty, totalSupplyOfLiquidityTokens), feeQty,
                         internalBalancesBN)

(* lines 266-271 with the two checks in the other order *)
addFirstLiquidityQuoteFirst(baseTokenQtyDesired, quoteTokenQtyDesired, internalBalancesBN) ==
  IF isLessThanOrEqualTo(quoteTokenQtyDesired, ZERO)
  THEN ThrowQtys("INSUFFICIENT_QUOTE_QTY_DESIRED", internalBalancesBN)
  ELSE IF isLessThanOrEqualTo(baseTokenQtyDesired, ZERO)
  THEN ThrowQtys("INSUFFICIENT_BASE_QTY_DESIRED", internalBalancesBN)
  ELSE TokenQtys(baseTokenQtyDesired, quoteTokenQtyDesired,
                 sqrt(multipliedBy(baseTokenQtyDesired, quoteTokenQtyDesired)), ZERO,
                 internalBalancesBN)

(* lines 264-280: the first provider sets the price curve *)
addFirstLiquidity(baseTokenQtyDesired, quoteTokenQtyDesired, internalBalancesBN) ==
  IF isLessThanOrEqualTo(baseTokenQtyDesired, ZERO)
  THEN ThrowQtys("INSUFFICIENT_BASE_QTY_DESIRED", internalBalancesBN)
  ELSE IF isLessThanOrEqualTo(quoteTokenQtyDesired, ZERO)
  THEN ThrowQtys("INSUFFICIENT_QUOTE_QTY_DESIRED", internalBalancesBN)
  ELSE TokenQtys(baseTokenQtyDesired, quoteTokenQtyDesired,
                 sqrt(multipliedBy(baseTokenQtyDesired, quoteTokenQtyDesired)), ZERO,
                 [internalBalancesBN EXCEPT
                    !.baseTokenReserveQty  = plus(internalBalancesBN.baseTokenReserveQty,
                                                  baseTokenQtyDesired),
                    !.quoteTokenReserveQty = plus(internalBalancesBN.quoteTokenReserveQty,
                                                  quoteTokenQtyDesired)])

calculateAddLiquidityQuantitiesBN(baseTokenQtyDesired, quoteTokenQtyDesired, baseTokenQtyMin, quoteTokenQtyMin, baseTokenReserveQty, quoteTokenReserveQty, totalSupplyOfLiquidityTokens, internalBalancesBN) ==
  IF isGreaterThan(totalSupplyOfLiquidityTokens, ZERO)
  THEN addLiquidityWithFee(baseTokenQtyDesired, quoteTokenQtyDesired, baseTokenQtyMin,
         quoteTokenQtyMin, baseTokenReserveQty, quoteTokenReserveQty,
         totalSupplyOfLiquidityTokens, internalBalancesBN,
         calculateLiquidityTokenFees(totalSupplyOfLiquidityTokens, internalBalancesBN))
  ELSE addFirstLiquidity(baseTokenQtyDesired, quoteTokenQtyDesired, internalBalancesBN)

calculateAddLiquidityQuantities(baseTokenQtyDesired, quoteTokenQtyDesired, baseTokenQtyMin, quoteTokenQtyMin, baseTokenReserveQty, quoteTokenReserveQty, totalSupplyOfLiquidityTokens, internalBalances) ==
  calculateAddLiquidityQuantitiesBN(baseTokenQtyDesired, quoteTokenQtyDesired,
    baseTokenQtyMin, quoteTokenQtyMin, baseTokenReserveQty, quoteTokenReserveQty,
    totalSupplyOfLiquidityTokens, internalBalancesBNConverter(internalBalances))

-----------------------------------------------------------------------------
(* The caller.  ib is the internalBalances record the caller holds, pre its  *)
(* value before the last call, fn / args / ret the last call and its         *)
(* result, n the number of calls made.                                       *)

VARIABLES ib, pre, fn, args, ret, n

mathVars == <<ib, pre, fn, args, ret, n>>

(* The Exchange class against its contract.  now is the clock in seconds,    *)
(* chain the balances, allowances and reserves the contract holds, tx the    *)
(* method call of the caller, invoked the contract methods invoked so far.   *)

VARIABLES now, chain, tx, invoked

exchangeVars == <<now, chain, tx, invoked>>

(* Multicall: _queue, the timers setTimeout has pending, _autoCallPid, the   *)
(* promises enqueue returned, the batches handed to provider.all and not    *)
(* yet answered, and the number the last call() returned                    *)
VARIABLES queue, timers, autoCallPid, promises, batches, returned

multicallVars == <<queue, timers, autoCallPid, promises, batches, returned>>

vars == <<ib, pre, fn, args, ret, n, now, chain, tx, invoked, queue, timers, autoCallPid, promises, batches, returned>>

NoChain ==
  [baseBalance |-> 0, quoteBalance |-> 0, lpBalance |-> 0,
   baseAllowance |-> 0, quoteAllowance |-> 0, lpAllowance |-> 0,
   baseReserve |-> 0, quoteReserve |-> 0]

(* before and startedAt are the chain and the clock when the method was     *)
(* called                                                                    *)
NoTx ==
  [method |-> "none", pc |-> "idle", err |-> "OK", qty |-> 0, quoteQty |-> 0,
   baseMin |-> 0, quoteMin |-> 0, expirationTimestamp |-> 0,
   startedAt |-> 0, before |-> NoChain]

ExchangeIdle == now = 0 /\ chain = NoChain /\ tx = NoTx /\ invoked = << >>

MulticallIdle ==
  /\ queue = << >> /\ timers = {} /\ autoCallPid = 0
  /\ promises = << >> /\ batches = << >> /\ returned = 0

MaxQty == 3
MaxCalls == 2

Small == {BN(i) : i \in 0..MaxQty}

(* 2 * 10^20 - 1, 2 * 10^20 and 10^21 base units *)
Wei200Less1 == minus(BNe(2, 20), BN(1))
Wei200 == BNe(2, 20)
Wei1000 == BNe(1, 21)

SwapQtys == Small \cup {BN(15), BN(50), Wei1000}
Reserves == Small \cup {BN(100), BN(2000), BN(3000), BN(5000), Wei200Less1}
Fees == {BN(0), BN(1), BN(30), BN(10000)}

Supplies == {BN(1), BN(50), BN(5000)}
EntryQtys == Small \cup {BN(15), BN(25), BN(50), Wei200Less1}
EntryReserves == Small \cup {BN(7), BN(50), BN(975), BN(1000), Wei200}
DecayChanges == {BN(1), BN(7), BN(125), BN(250)}
Decays == {BN(1), BN(250)}

NoBalances == InternalBalances(ZERO, ZERO, ZERO)

(* --- the pure helpers, each called once on inputs of the caller's choice --- *)

InitHelpers ==
  /\ ib = NoBalances /\ pre = NoBalances
  /\ fn = "none" /\ args = << >> /\ ret = [err |-> "OK", val |-> ZERO]
  /\ n = 0
  /\ ExchangeIdle /\ MulticallIdle

HelperReturn(f, a, r) ==
  /\ n' = 1
  /\ fn' = f
  /\ args' = a
  /\ ret' = r
  /\ UNCHANGED <<ib, pre>>
  /\ UNCHANGED <<exchangeVars, multicallVars>>

CallCalculateQtyToReturnAfterFees ==
  /\ n = 0
  /\ \E x \in SwapQtys, a \in Reserves, b \in Reserves, fee \in Fees :
    HelperReturn("calculateQtyToReturnAfterFees", <<x, a, b, fee>>,
                 [err |-> "OK", val |-> calculateQtyToReturnAfterFees(x, a, b, fee)])

CallCalculateQty ==
  /\ n = 0
  /\ \E x \in SwapQtys \cup {NaN}, a \in Reserves \cup {NaN}, b \in Reserves :
    HelperReturn("calculateQty", <<x, a, b>>, calculateQty(x, a, b))

CallCalculateLiquidityTokenQtyForDoubleAssetEntry ==
  /\ n = 0
  /\ \E s \in Supplies, q \in EntryQtys, r \in EntryReserves :
    HelperReturn("calculateLiquidityTokenQtyForDoubleAssetEntry", <<s, q, r>>,
                 [err |-> "OK", val |-> calculateLiquidityTokenQtyForDoubleAssetEntry(s, q, r)])

CallCalculateLiquidityTokenQtyForSingleAssetEntry ==
  /\ n = 0
  /\ \E s \in Supplies, dA \in EntryQtys, a \in EntryReserves,
     dB \in DecayChanges, bDecay \in Decays :
    HelperReturn("calculateLiquidityTokenQtyForSingleAssetEntry", <<s, dA, a, dB, bDecay>>,
                 [err |-> "OK",
                  val |-> calculateLiquidityTokenQtyForSingleAssetEntry(s, dA, a, dB, bDecay)])

(* unparsable, infinite, negative, zero and positive arguments *)
RateReserves == {NaN, Infinity(FALSE), BN(-1), BN(0), BN(1), BN(3), BN(100), Wei200}

CallCalculateExchangeRate ==
  /\ n = 0
  /\ \E a \in RateReserves, b \in RateReserves :
    HelperReturn("calculateExchangeRate", <<a, b>>, calculateExchangeRate(a, b))

CallCalculateFees ==
  /\ n = 0
  /\ \E fee \in {NaN, BN(-1), BN(0), BN(30), BN(10000)},
        x \in {NaN, Infinity(FALSE), BN(-1), BN(0), BN(1), BN(15), Wei1000} :
    HelperReturn("calculateFees", <<fee, x>>, calculateFees(fee, x))

Slippages == {BN(0), BN(5), BN(100)}

CallCalculateOutputAmountLessFees ==
  /\ n = 0
  /\ \E x \in {NaN, Infinity(FALSE), BN(0), BN(1), BN(10), BN(1000), Wei1000},
        a \in {NaN, BN(0), BN(1), BN(100), BN(5000)},
        b \in {BN(-1), BN(0), BN(1), BN(100), BN(5000)},
        slip \in Slippages, fee \in {BN(0), BN(30)} :
    HelperReturn("calculateOutputAmountLessFees", <<x, a, b, slip, fee>>,
                 calculateOutputAmountLessFees(x, a, b, slip, fee))

(* the output just computed is fed back, with the same reserves, slippage and *)
(* fee; the input it came from is kept as a sixth argument                    *)
CallCalculateInputAmountFromOutputAmount ==
  /\ n = 1
  /\ fn = "calculateOutputAmountLessFees"
  /\ ret.err = "OK"
  /\ n' = 2
  /\ fn' = "calculateInputAmountFromOutputAmount"
  /\ args' = <<ret.val, args[2], args[3], args[4], args[5], args[1]>>
  /\ ret' = [err |-> "OK",
             val |-> calculateInputAmountFromOutputAmount(ret.val, args[2], args[3],
                                                          args[4], args[5])]
  /\ UNCHANGED <<ib, pre>>
  /\ UNCHANGED <<exchangeVars, multicallVars>>

ImpactQtys == {BN(1), BN(10), BN(1000)}
ImpactReserves == {BN(0), BN(1), BN(100), BN(5000), Wei1000}

CallCalculatePriceImpact ==
  /\ n = 0
  /\ \E x \in ImpactQtys \cup {Wei1000}, a \in ImpactReserves \cup {NaN, BN(-1)},
        b \in ImpactReserves \cup {BN(-1)},
        slip \in {BN(0), BN(5)}, fee \in {BN(0), BN(30)} :
    HelperReturn("calculatePriceImpact", <<x, a, b, slip, fee>>,
                 calculatePriceImpact(x, a, b, slip, fee))

CallExchangeCalculatePriceImpact ==
  /\ n = 0
  /\ \E x \in ImpactQtys, a \in ImpactReserves, b \in ImpactReserves,
        slip \in {BN(0), BN(5)}, fee \in {BN(0), BN(30)} :
    HelperReturn("Exchange.calculatePriceImpact", <<x, a, b, slip, fee>>,
                 Exchange_calculatePriceImpact(x, a, b, slip, fee))

CallCalculateTokenAmountsFromLPTokens ==
  /\ n = 0
  /\ \E lp \in {NaN, BN(0), BN(1), BN(2), BN(50), BN(100)}, slip \in Slippages \cup {BN(1)},
        base \in {BN(0), BN(100), BN(5000)}, quote \in {BN(7), BN(5000)},
        supply \in {BN(0), BN(3), BN(100)} :
    HelperReturn("calculateTokenAmountsFromLPTokens", <<lp, slip, base, quote, supply>>,
                 calculateTokenAmountsFromLPTokens(lp, slip, base, quote, supply))

FeeBases == {BN(1), BN(2), BN(3), BN(100), Wei200}
FeeQuotes == {BN(1), BN(3), BN(5000), Wei200}
FeeKLasts == {BN(0), BN(1), BN(4), BN(6), BN(250000), multipliedBy(Wei200Less1, Wei200Less1)}

CallCalculateLiquidityTokenFees ==
  /\ n = 0
  /\ \E supply \in Supplies, base \in FeeBases, quote \in FeeQuotes, kLast \in FeeKLasts :
    HelperReturn("calculateLiquidityTokenFees", <<supply, base, quote, kLast>>,
                 [err |-> "OK",
                  val |-> calculateLiquidityTokenFees(supply, InternalBalances(base, quote, kLast))])

NextHelpers ==
  \/ CallCalculateInputAmountFromOutputAmount
  \/ CallCalculateLiquidityTokenFees
  \/ CallCalculateQtyToReturnAfterFees
  \/ CallCalculateQty
  \/ CallCalculateLiquidityTokenQtyForDoubleAssetEntry
  \/ CallCalculateLiquidityTokenQtyForSingleAssetEntry
  \/ CallCalculateExchangeRate
  \/ CallCalculateFees
  \/ CallCalculateOutputAmountLessFees
  \/ CallCalculatePriceImpact
  \/ CallExchangeCalculatePriceImpact
  \/ CallCalculateTokenAmountsFromLPTokens

SpecHelpers == InitHelpers /\ [][NextHelpers]_vars

(* --- calls that work on the caller's internalBalances record --- *)

StartBalances ==
  {InternalBalances(BN(1), BN(1), BN(1)),
   InternalBalances(BN(2), BN(3), BN(6)),
   InternalBalances(BN(100), BN(5000), BN(500000)),
   InternalBalances(BN(1000), BN(5000), BN(5000000)),
   InternalBalances(Wei200, Wei200Less1, multipliedBy(Wei200, Wei200Less1)),
   InternalBalances(Wei200Less1, Wei200, multipliedBy(Wei200, Wei200Less1))}

SwapFees == {BN(1), BN(30)}
SwapMinimums == {BN(0), BN(1)}

InitBalances ==
  /\ ib \in StartBalances /\ pre = ib
  /\ fn = "none" /\ args = << >> /\ ret = [err |-> "OK", val |-> ZERO]
  /\ n = 0
  /\ ExchangeIdle /\ MulticallIdle

SwapReturn(f, a, r) ==
  /\ n' = n + 1
  /\ fn' = f
  /\ args' = a
  /\ ret' = [err |-> r.err, val |-> r.val]
  /\ ib' = r.ib
  /\ pre' = ib
  /\ UNCHANGED <<exchangeVars, multicallVars>>

CallCalculateQuoteTokenQty ==
  /\ n < MaxCalls
  /\ \E x \in SwapQtys, min \in SwapMinimums, fee \in SwapFees :
    SwapReturn("calculateQuoteTokenQty", <<x, min, fee>>,
               calculateQuoteTokenQty(x, min, fee, ib))

CallCalculateBaseTokenQty ==
  /\ n < MaxCalls
  /\ \E x \in SwapQtys, min \in SwapMinimums, ext \in {BN(1), BN(50), BN(950)}, fee \in SwapFees :
    SwapReturn("calculateBaseTokenQty", <<x, min, ext, fee>>,
               calculateBaseTokenQty(x, min, ext, fee, ib))

NextSwap ==
  \/ CallCalculateQuoteTokenQty
  \/ CallCalculateBaseTokenQty

SpecSwap == InitBalances /\ [][NextSwap]_vars

(* --- adding liquidity: one call on the record the caller holds --- *)

(* internal balances that grew since kLast was recorded: a fee is due *)
GrownBalances == {InternalBalances(BN(1000), BN(5000), BN(1250000))}

InitAdd ==
  /\ ib \in StartBalances \cup GrownBalances /\ pre = ib
  /\ fn = "none" /\ args = << >> /\ ret = [err |-> "OK", val |-> ZERO]
  /\ n = 0
  /\ ExchangeIdle /\ MulticallIdle

AddReturn(f, a, r) ==
  /\ n' = 1
  /\ fn' = f
  /\ args' = a
  /\ ret' = [err |-> r.err, baseTokenQty |-> r.baseTokenQty,
             quoteTokenQty |-> r.quoteTokenQty, liquidityTokenQty |-> r.liquidityTokenQty,
             liquidityTokenFeeQty |-> r.liquidityTokenFeeQty]
  /\ ib' = r.ib
  /\ pre' = ib
  /\ UNCHANGED <<exchangeVars, multicallVars>>

CallCalculateAddBaseTokenLiquidityQuantities ==
  /\ n = 0
  /\ \E baseD \in {BN(0), BN(1), BN(50), BN(100)}, baseMin \in {BN(0), BN(50), BN(60)},
        extBase \in {BN(1), BN(950), BN(1500)}, supply \in {BN(5000)} :
       AddReturn("calculateAddBaseTokenLiquidityQuantities",
                 <<baseD, baseMin, extBase, supply>>,
                 calculateAddBaseTokenLiquidityQuantities(baseD, baseMin, extBase, supply, ib))

CallCalculateAddQuoteTokenLiquidityQuantities ==
  /\ n = 0
  /\ \E quoteD \in {BN(9), BN(10), BN(2500), BN(3000), BN(10000)},
        quoteMin \in {BN(0), BN(2500)},
        extBase \in {BN(950), BN(1002), BN(1500)}, supply \in {BN(5000)} :
       AddReturn("calculateAddQuoteTokenLiquidityQuantities",
                 <<quoteD, quoteMin, extBase, supply>>,
                 calculateAddQuoteTokenLiquidityQuantities(quoteD, quoteMin, extBase, supply, ib))

CallCalculateAddTokenPairLiquidityQuantities ==
  /\ n = 0
  /\ \E baseD \in {BN(0), BN(1), BN(100)}, quoteD \in {BN(1), BN(250), BN(700)},
        baseMin \in {BN(0), BN(60)}, quoteMin \in {BN(0), BN(300)},
        extQuote \in {BN(5000)}, supply \in {BN(5000)} :
       AddReturn("calculateAddTokenPairLiquidityQuantities",
                 <<baseD, quoteD, baseMin, quoteMin, extQuote, supply>>,
                 calculateAddTokenPairLiquidityQuantities(baseD, quoteD, baseMin, quoteMin,
                                                          extQuote, supply, ib))

CallCalculateAddLiquidityQuantities ==
  /\ n = 0
  /\ \E baseD \in {BN(0), BN(50), BN(150)}, quoteD \in {BN(0), BN(250)},
        baseMin \in {BN(0), BN(45)}, quoteMin \in {BN(0), BN(245)},
        extBase \in {BN(2), BN(950), BN(1000), BN(1020), BN(1500)}, extQuote \in {BN(5000)},
        supply \in {BN(0), BN(5000)} :
       AddReturn("calculateAddLiquidityQuantities",
                 <<baseD, quoteD, baseMin, quoteMin, extBase, extQuote, supply>>,
                 calculateAddLiquidityQuantities(baseD, quoteD, baseMin, quoteMin,
                                                 extBase, extQuote, supply, ib))

(* line 167: the test the caller of an add makes on the record it holds *)
CallIsSufficientDecayPresent ==
  /\ n = 0
  /\ \E extBase \in {BN(0), BN(1), BN(2), BN(3), BN(1000), BN(1005), BN(1006), Wei200Less1, Wei200} :
       /\ n' = 1
       /\ fn' = "isSufficientDecayPresent"
       /\ args' = <<extBase>>
       /\ ret' = [err |-> "OK", val |-> isSufficientDecayPresent(extBase, ib)]
       /\ ib' = internalBalancesBNConverter(ib)
       /\ pre' = ib
       /\ UNCHANGED <<exchangeVars, multicallVars>>

NextAdd ==
  \/ CallCalculateAddBaseTokenLiquidityQuantities
  \/ CallCalculateAddQuoteTokenLiquidityQuantities
  \/ CallCalculateAddTokenPairLiquidityQuantities
  \/ CallCalculateAddLiquidityQuantities
  \/ CallIsSufficientDecayPresent

SpecAdd == InitAdd /\ [][NextAdd]_vars

(* --- the Exchange methods that send a transaction: one method call, while  *)
(* the clock runs.  A method runs up to its first await when it is called    *)
(* and from its last await to its end in a second step; what it awaits are   *)
(* reads of the chain. --- *)

MaxTime == 2

Chains ==
  {[NoChain EXCEPT !.baseBalance = b, !.quoteBalance = b, !.lpBalance = b,
                   !.baseAllowance = a, !.quoteAllowance = aq, !.lpAllowance = a,
                   !.baseReserve = 5, !.quoteReserve = 5] :
     b \in {1, 2}, a \in {1, 2}, aq \in {1, 2}}

InitExchange ==
  /\ ib = NoBalances /\ pre = NoBalances
  /\ fn = "none" /\ args = << >> /\ ret = [err |-> "OK", val |-> ZERO]
  /\ n = 0
  /\ now \in {0, 1} /\ chain \in Chains /\ tx = NoTx /\ invoked = << >>
  /\ MulticallIdle

Tick ==
  /\ now < MaxTime
  /\ now' = now + 1
  /\ UNCHANGED <<chain, tx, invoked>>
  /\ UNCHANGED <<mathVars, multicallVars>>

(* the method runs to its first await, or throws before it (e) *)
Called(method, qty, quoteQty, baseMin, quoteMin, expirationTimestamp, e) ==
  /\ tx.pc = "idle"
  /\ tx' = [method |-> method, pc |-> IF e = "OK" THEN "awaiting" ELSE "done",
            err |-> e, qty |-> qty,
            quoteQty |-> quoteQty, baseMin |-> baseMin, quoteMin |-> quoteMin,
            expirationTimestamp |-> expirationTimestamp, startedAt |-> now,
            before |-> chain]
  /\ UNCHANGED <<now, chain, invoked>>
  /\ UNCHANGED <<mathVars, multicallVars>>

Thrown(e) ==
  /\ tx' = [tx EXCEPT !.pc = "done", !.err = e]
  /\ UNCHANGED <<now, chain, invoked>>
  /\ UNCHANGED <<mathVars, multicallVars>>

(* this.contract[method](...): the transaction is sent, and the contract     *)
(* moves the tokens                                                          *)
ContractInvoked(method, after) ==
  /\ tx' = [tx EXCEPT !.pc = "done"]
  /\ invoked' = Append(invoked, method)
  /\ chain' = after
  /\ UNCHANGED now
  /\ UNCHANGED <<mathVars, multicallVars>>

Resumed(method, e, after) ==
  /\ tx.pc = "awaiting" /\ tx.method = method
  /\ IF e # "OK" THEN Thrown(e) ELSE ContractInvoked(method, after)

transferErrorNoAllowance(expirationTimestamp, balance, allowance, qty, notEnough) ==
  IF expirationTimestamp < now THEN "TIMESTAMP_EXPIRED"
  ELSE IF balance < qty THEN notEnough
  ELSE "OK"

(* the three checks of removeLiquidity and of the swaps, in their order *)
transferError(expirationTimestamp, balance, allowance, qty, notEnough) ==
  IF expirationTimestamp < now THEN "TIMESTAMP_EXPIRED"
  ELSE IF balance < qty THEN notEnough
  ELSE IF allowance < qty THEN "TRANSFER_NOT_APPROVED"
  ELSE "OK"

ExchangeQtys == {1, 2}
ExchangeMinimums == {0, 1, 2}
Expirations == {0, 1, 2}

swapBaseTokenForQuoteToken ==
  \E baseTokenQty \in ExchangeQtys, quoteTokenQtyMin \in ExchangeMinimums, expirationTimestamp \in Expirations :
    Called("swapBaseTokenForQuoteToken", baseTokenQty, 0, 0, quoteTokenQtyMin,
           expirationTimestamp, "OK")

swapBaseTokenForQuoteTokenResumed ==
  Resumed("swapBaseTokenForQuoteToken",
          transferError(tx.expirationTimestamp, chain.baseBalance, chain.baseAllowance,
                        tx.qty, "NOT_ENOUGH_BASE_TOKEN_BALANCE"),
          [chain EXCEPT !.baseBalance = @ - tx.qty, !.baseReserve = @ + tx.qty])

swapQuoteTokenForBaseToken ==
  \E quoteTokenQty \in ExchangeQtys, baseTokenQtyMin \in ExchangeMinimums, expirationTimestamp \in Expirations :
    Called("swapQuoteTokenForBaseToken", 0, quoteTokenQty, baseTokenQtyMin, 0,
           expirationTimestamp, "OK")

swapQuoteTokenForBaseTokenResumed ==
  Resumed("swapQuoteTokenForBaseToken",
          transferError(tx.expirationTimestamp, chain.quoteBalance, chain.quoteAllowance,
                        tx.quoteQty, "NOT_ENOUGH_QUOTE_TOKEN_BALANCE"),
          [chain EXCEPT !.quoteBalance = @ - tx.quoteQty, !.quoteReserve = @ + tx.quoteQty])

removeLiquidity ==
  \E liquidityTokenQty \in ExchangeQtys, expirationTimestamp \in Expirations :
    Called("removeLiquidity", liquidityTokenQty, 0, 0, 0, expirationTimestamp, "OK")

removeLiquidityResumed ==
  Resumed("removeLiquidity",
          transferError(tx.expirationTimestamp, chain.lpBalance, chain.lpAllowance,
                        tx.qty, "NOT_ENOUGH_LP_TOKEN_BALANCE"),
          [chain EXCEPT !.lpBalance = @ - tx.qty])

(* lines 323-329: what addLiquidity checks before it reads the chain *)
addLiquidityEntryError(baseTokenQtyDesired, baseTokenQtyMin, expirationTimestamp) ==
  IF expirationTimestamp < now THEN "TIMESTAMP_EXPIRED"
  ELSE IF baseTokenQtyDesired <= baseTokenQtyMin
  THEN "TOKEN_QTY_DESIRED_LESS_OR_EQUAL_THAN_MINIMUM"
  ELSE "OK"

addLiquidity ==
  \E baseTokenQtyDesired \in ExchangeQtys, quoteTokenQtyDesired \in ExchangeQtys,
     baseTokenQtyMin \in ExchangeMinimums, quoteTokenQtyMin \in ExchangeMinimums,
     expirationTimestamp \in Expirations :
    Called("addLiquidity", baseTokenQtyDesired, quoteTokenQtyDesired, baseTokenQtyMin,
           quoteTokenQtyMin, expirationTimestamp,
           addLiquidityEntryError(baseTokenQtyDesired, baseTokenQtyMin, expirationTimestamp))

(* lines 347-364: what addLiquidity checks on the values it read *)
addLiquidityError ==
  IF chain.baseBalance < tx.qty THEN "NOT_ENOUGH_BASE_TOKEN_BALANCE"
  ELSE IF tx.quoteQty <= tx.quoteMin THEN "TOKEN_QTY_DESIRED_LESS_OR_EQUAL_THAN_MINIMUM"
  ELSE IF chain.quoteBalance < tx.quoteQty THEN "NOT_ENOUGH_QUOTE_TOKEN_BALANCE"
  ELSE IF chain.baseAllowance < tx.qty \/ chain.quoteAllowance < tx.quoteQty
  THEN "TRANSFER_NOT_APPROVED"
  ELSE "OK"

addLiquidityResumed ==
  Resumed("addLiquidity", addLiquidityError,
          [chain EXCEPT !.baseBalance = @ - tx.qty, !.quoteBalance = @ - tx.quoteQty,
                        !.baseReserve = @ + tx.qty, !.quoteReserve = @ + tx.quoteQty,
                        !.lpBalance = @ + 1])

NextExchange ==
  \/ Tick
  \/ swapBaseTokenForQuoteToken
  \/ swapBaseTokenForQuoteTokenResumed
  \/ swapQuoteTokenForBaseToken
  \/ swapQuoteTokenForBaseTokenResumed
  \/ removeLiquidity
  \/ removeLiquidityResumed
  \/ addLiquidity
  \/ addLiquidityResumed

SpecExchange == InitExchange /\ [][NextExchange]_vars

(* --- Multicall: enqueue puts a request in the queue and arms the timer     *)
(* that calls call(); call() hands the queue to provider.all in batches.     *)
(* call() has no await: it runs in one step.  A request is the number of the *)
(* enqueue that made it, and it names a function of its abi.  The caller  *)
(* makes MaxRequests requests, and none while MaxInFlight batches await      *)
(* their answer. --- *)

TIME_TO_CALL == 50
MAX_REQUESTS_PER_CALL == 10

MaxRequests == 11
MaxInFlight == 2
TickMs == 25

(* the requests whose contract call reverts: provider.all fails for a batch *)
(* that holds one                                                           *)
Reverting == {11}

ResultOf(request) == [of |-> request]

Pending == [state |-> "pending", value |-> ResultOf(0), handed |-> 0, settled |-> 0, retrying |-> FALSE]

InitMulticall ==
  /\ ib = NoBalances /\ pre = NoBalances
  /\ fn = "none" /\ args = << >> /\ ret = [err |-> "OK", val |-> ZERO]
  /\ n = 0
  /\ ExchangeIdle /\ MulticallIdle

clearTimeout(pending, pid) == {t \in pending : t.pid # pid}

FreshPid(pending) ==
  CHOOSE pid \in 1..(Cardinality(pending) + 1) : \A t \in pending : t.pid # pid

setTimeout(pending, pid) == pending \cup {[pid |-> pid, ms |-> TIME_TO_CALL]}

(* lines 112-115: the timer is reset, then armed *)
autoCallReset(cleared) ==
  /\ timers' = setTimeout(cleared, FreshPid(cleared))
  /\ autoCallPid' = FreshPid(cleared)

enqueue ==
  /\ Len(promises) < MaxRequests
  /\ Len(batches) < MaxInFlight
  /\ autoCallReset(clearTimeout(timers, autoCallPid))
  /\ queue' = Append(queue, Len(promises) + 1)
  /\ promises' = Append(promises, Pending)
  /\ UNCHANGED <<batches, returned>>
  /\ UNCHANGED <<mathVars, exchangeVars>>

(* a request beyond MaxRequests: it resets and arms the timer as every       *)
(* enqueue does; the request itself and its promise are not followed         *)
enqueueNotFollowed ==
  /\ Len(promises) = MaxRequests
  /\ autoCallReset(clearTimeout(timers, autoCallPid))
  /\ UNCHANGED <<queue, promises, batches, returned>>
  /\ UNCHANGED <<mathVars, exchangeVars>>

(* time passes while a timer runs *)
TimePasses ==
  /\ \E t \in timers : t.ms > 0
  /\ timers' = {[t EXCEPT !.ms = IF t.ms > TickMs THEN t.ms - TickMs ELSE 0] : t \in timers}
  /\ UNCHANGED <<queue, autoCallPid, promises, batches, returned>>
  /\ UNCHANGED <<mathVars, exchangeVars>>

RECURSIVE callLoopNext(_, _, _, _)

callLoopPushed(rest, pushed, dispatched, counter) ==
  IF Len(pushed) = MAX_REQUESTS_PER_CALL
  THEN callLoopNext(rest, pushed, Append(dispatched, pushed), counter)
  ELSE callLoopNext(rest, pushed, dispatched, counter)

(* lines 86-89: the stack is handed over when it holds                       *)
(* MAX_REQUESTS_PER_CALL requests, and a new stack begins                    *)
callLoopPush(rest, pushed, dispatched, counter) ==
  IF Len(pushed) = MAX_REQUESTS_PER_CALL
  THEN callLoopNext(rest, << >>, Append(dispatched, pushed), counter)
  ELSE callLoopNext(rest, pushed, dispatched, counter)

(* lines 82-92: the do-while over the queue, then handler(stack) *)
callLoopNext(rest, stack, dispatched, counter) ==
  IF rest = << >>
  THEN [dispatched |-> Append(dispatched, stack), counter |-> counter]
  ELSE callLoopPush(Tail(rest), Append(stack, Head(rest)), dispatched, counter + 1)

callLoop(requests) == callLoopNext(requests, << >>, << >>, 0)

TimesIn(request, dispatched) ==
  Cardinality({<<i, k>> \in (DOMAIN dispatched) \X (1..MAX_REQUESTS_PER_CALL + 1) :
                 k \in DOMAIN dispatched[i] /\ dispatched[i][k] = request})

(* lines 47-97, a queue with requests: loop is what the do-while made of it *)
callDispatch(loop) ==
  /\ queue' = << >>
  /\ batches' = batches \o loop.dispatched
  /\ promises' = [r \in DOMAIN promises |->
                    [promises[r] EXCEPT !.handed = @ + TimesIn(r, loop.dispatched)]]
  /\ returned' = loop.counter

(* lines 41-97, with the timers that are pending when call() begins *)
callBody(pending) ==
  /\ timers' = clearTimeout(pending, autoCallPid)
  /\ UNCHANGED autoCallPid
  /\ IF Len(queue) = 0
     THEN /\ returned' = 0
          /\ UNCHANGED <<queue, promises, batches>>
     ELSE callDispatch(callLoop(queue))
  /\ UNCHANGED <<mathVars, exchangeVars>>

(* the caller calls call() *)
call == callBody(timers)

(* line 115: a timer that ran out calls call() *)
autoCall == \E t \in timers : t.ms = 0 /\ callBody(timers \ {t})

Without(seq, i) == [k \in 1..(Len(seq) - 1) |-> IF k < i THEN seq[k] ELSE seq[k + 1]]

PositionIn(request, calls) == CHOOSE k \in DOMAIN calls : calls[k] = request

settle(promise, state, value) ==
  IF promise.state = "pending"
  THEN [promise EXCEPT !.state = state, !.value = value, !.settled = @ + 1, !.retrying = FALSE]
  ELSE [promise EXCEPT !.settled = @ + 1, !.retrying = FALSE]

(* lines 62-67: provider.all answers, results[i] is the result of calls[i] *)
handlerThen(calls, results) ==
  promises' = [r \in DOMAIN promises |->
                 IF \E k \in DOMAIN calls : calls[k] = r /\ k \in DOMAIN results
                 THEN settle(promises[r], "resolved", results[PositionIn(r, calls)])
                 ELSE promises[r]]

providerAllResolves ==
  \E i \in DOMAIN batches :
    /\ \A k \in DOMAIN batches[i] : batches[i][k] \notin Reverting
    /\ handlerThen(batches[i], [k \in DOMAIN batches[i] |-> ResultOf(batches[i][k])])
    /\ batches' = Without(batches, i)
    /\ UNCHANGED <<queue, timers, autoCallPid, returned>>
    /\ UNCHANGED <<mathVars, exchangeVars>>

(* lines 68-77: provider.all fails, each request of the batch is made alone *)
providerAllRejects ==
  \E i \in DOMAIN batches :
    /\ \E k \in DOMAIN batches[i] : batches[i][k] \in Reverting
    /\ promises' = [r \in DOMAIN promises |->
                      IF \E k \in DOMAIN batches[i] : batches[i][k] = r
                      THEN [promises[r] EXCEPT !.retrying = TRUE]
                      ELSE promises[r]]
    /\ batches' = Without(batches, i)
    /\ UNCHANGED <<queue, timers, autoCallPid, returned>>
    /\ UNCHANGED <<mathVars, exchangeVars>>

(* line 75: .then(resolve, reject) of the request made alone *)
retrySettles ==
  \E r \in DOMAIN promises :
    /\ promises[r].retrying
    /\ promises' = [promises EXCEPT ![r] =
                      IF r \in Reverting THEN settle(promises[r], "rejected", ResultOf(r))
                      ELSE settle(promises[r], "resolved", ResultOf(r))]
    /\ UNCHANGED <<queue, timers, autoCallPid, batches, returned>>
    /\ UNCHANGED <<mathVars, exchangeVars>>

NextMulticall ==
  \/ enqueue
  \/ TimePasses
  \/ call
  \/ autoCall
  \/ providerAllResolves
  \/ providerAllRejects
  \/ retrySettles

SpecMulticall == InitMulticall /\ [][NextMulticall]_vars

NextAutoCall ==
  \/ enqueue
  \/ enqueueNotFollowed
  \/ TimePasses
  \/ call
  \/ autoCall

(* the clock runs, and a timer that ran out gets its callback called *)
SpecAutoCall ==
  InitMulticall /\ [][NextAutoCall]_vars /\ WF_vars(TimePasses) /\ WF_vars(autoCall)


-----------------------------------------------------------------------------
(* Properties.  The exact values are computed on the mantissas, with no     *)
(* rounding before the floor.                                               *)

(* floor(a / b) at dp decimal places, for a >= 0 and b > 0 *)
FloorDiv(a, b, dp) == Fin(FALSE, NDiv(NScale(a.m, b.e + dp), NScale(b.m, a.e)), dp)

MinOf(a, b) == IF isLessThan(b, a) THEN b ELSE a

K(balances) == multipliedBy(balances.baseTokenReserveQty, balances.quoteTokenReserveQty)

PositiveReserves(balances) ==
  /\ isGreaterThan(balances.baseTokenReserveQty, ZERO)
  /\ isGreaterThan(balances.quoteTokenReserveQty, ZERO)

ExactQtyToReturn(x, a, b, fee) ==
  FloorDiv(multipliedBy(multipliedBy(x, minus(BASIS_POINTS, fee)), b),
           plus(multipliedBy(a, BASIS_POINTS), multipliedBy(x, minus(BASIS_POINTS, fee))),
           0)

(* C1: for a swap quantity >= 0, reserves A, B > 0 and a fee of 0..10000 basis *)
(* points, calculateQtyToReturnAfterFees returns                                *)
(* floor(x * (10000 - fee) * B / (A * 10000 + x * (10000 - fee))).              *)
C1_ReturnsExactFloor ==
  (fn = "calculateQtyToReturnAfterFees"
     /\ isGreaterThan(args[2], ZERO) /\ isGreaterThan(args[3], ZERO))
  => isEqualTo(ret.val, ExactQtyToReturn(args[1], args[2], args[3], args[4]))

C2_Positive ==
  /\ fn = "calculateQtyToReturnAfterFees"
  /\ isGreaterThan(args[1], ZERO)
  /\ isGreaterThan(args[2], ZERO)
  /\ isGreaterThan(args[3], ZERO)

(* C2: for a positive swap quantity and positive reserves the result of        *)
(* calculateQtyToReturnAfterFees is at least 0 and at most the output reserve. *)
C2_OutWithinReserve ==
  C2_Positive
  => /\ isGreaterThanOrEqualTo(ret.val, ZERO)
     /\ isLessThanOrEqualTo(ret.val, args[3])

(* a swap that pays out the whole output reserve *)
C2_Witness == C2_Positive /\ isEqualTo(ret.val, args[3])

C3_Fee == IF fn = "calculateQuoteTokenQty" THEN args[3] ELSE args[4]

(* C3: a successful calculateQuoteTokenQty or calculateBaseTokenQty call with a *)
(* fee above 0, on a record with positive reserves, never leaves the product    *)
(* baseTokenReserveQty * quoteTokenReserveQty smaller than it was.              *)
C3_KNeverDecreases ==
  (fn \in {"calculateQuoteTokenQty", "calculateBaseTokenQty"}
     /\ ret.err = "OK" /\ isGreaterThan(C3_Fee, ZERO) /\ PositiveReserves(pre))
  => isGreaterThanOrEqualTo(K(ib), K(pre))

(* C4: when calculateAddLiquidityQuantities returns with a liquidity token    *)
(* supply above 0, the base and quote quantities it returns are at least the  *)
(* minimums the caller gave.                                                  *)
C4_MinimumsRespected ==
  (fn = "calculateAddLiquidityQuantities" /\ isGreaterThan(args[7], ZERO) /\ ret.err = "OK")
  => /\ isGreaterThanOrEqualTo(ret.baseTokenQty, args[3])
     /\ isGreaterThanOrEqualTo(ret.quoteTokenQty, args[4])

(* (externalBase - internalBase) / (internalBase / internalQuote) *)
C5_MaxQuote ==
  dividedBy(minus(args[3], pre.baseTokenReserveQty),
            dividedBy(pre.baseTokenReserveQty, pre.quoteTokenReserveQty))

(* C5: under base decay, with positive quoteTokenQtyDesired and maxQuote and  *)
(* quoteTokenQtyMin < maxQuote, calculateAddQuoteTokenLiquidityQuantities      *)
(* returns quoteTokenQty = min(quoteTokenQtyDesired, maxQuote).                *)
C5_QuoteIsMinOfDesiredAndMax ==
  (fn = "calculateAddQuoteTokenLiquidityQuantities"
     /\ PositiveReserves(pre)
     /\ isGreaterThan(args[3], pre.baseTokenReserveQty)
     /\ isGreaterThan(args[1], ZERO)
     /\ isGreaterThan(C5_MaxQuote, ZERO)
     /\ isLessThan(args[2], C5_MaxQuote))
  => /\ ret.err = "OK"
     /\ isEqualTo(ret.quoteTokenQty, MinOf(args[1], C5_MaxQuote))

(* internalBase - externalBase *)
C6_MaxBase == minus(pre.baseTokenReserveQty, args[3])

(* C6: with positive internal reserves, calculateAddBaseTokenLiquidityQuantities *)
(* raises INSUFFICIENT_DECAY exactly when baseTokenQtyMin >= maxBase; when it    *)
(* returns, baseTokenQty = min(baseTokenQtyDesired, maxBase) <= maxBase; and     *)
(* past the first check it raises INSUFFICIENT_CHANGE_IN_DECAY when              *)
(* min(baseTokenQtyDesired, maxBase) * internalQuote / internalBase <= 0.        *)
C6_AddBaseOutcome ==
  (fn = "calculateAddBaseTokenLiquidityQuantities" /\ PositiveReserves(pre))
  => /\ (ret.err = "INSUFFICIENT_DECAY") <=> isGreaterThanOrEqualTo(args[2], C6_MaxBase)
     /\ ret.err = "OK"
          => /\ isEqualTo(ret.baseTokenQty, MinOf(args[1], C6_MaxBase))
             /\ isLessThanOrEqualTo(ret.baseTokenQty, C6_MaxBase)
     /\ (/\ isLessThan(args[2], C6_MaxBase)
         /\ isLessThanOrEqualTo(multipliedBy(MinOf(args[1], C6_MaxBase),
                                             pre.quoteTokenReserveQty), ZERO))
          => ret.err = "INSUFFICIENT_CHANGE_IN_DECAY"

(* a call that is cut down to the decay gap *)
C6_Witness ==
  /\ fn = "calculateAddBaseTokenLiquidityQuantities" /\ PositiveReserves(pre)
  /\ ret.err = "OK"
  /\ isLessThan(ret.baseTokenQty, args[1])
  /\ isEqualTo(ret.baseTokenQty, C6_MaxBase)

(* g = (dA / A / 2) * (dBChange / bDecay) cut to 18 places *)
C7_Gamma == FloorDiv(multipliedBy(args[2], args[4]),
                     multipliedBy(BN(2), multipliedBy(args[3], args[5])), 18)

C7_Positive ==
  /\ fn = "calculateLiquidityTokenQtyForSingleAssetEntry"
  /\ \A i \in 1..5 : isGreaterThan(args[i], ZERO)

(* C7: for positive inputs with g < 1, calculateLiquidityTokenQtyForSingleAssetEntry *)
(* returns floor(S * g / (1 - g)), g being the exact gamma cut to 18 places.         *)
C7_FloorOfGammaFormula ==
  (C7_Positive /\ isLessThan(C7_Gamma, BN(1)))
  => isEqualTo(ret.val,
               FloorDiv(multipliedBy(args[1], C7_Gamma), minus(BN(1), C7_Gamma), 0))

(* S * g / (1 - g) = C8_Num / C8_Den for the exact g *)
C8_Num == multipliedBy(args[1], multipliedBy(args[2], args[4]))
C8_Den == minus(multipliedBy(BN(2), multipliedBy(args[3], args[5])),
                multipliedBy(args[2], args[4]))

C8_RebaseDownCases ==
  {<<BN(5000), BN(50), BN(1000), BN(250), BN(250)>>,
   <<BN(5000), BN(25), BN(975), BN(125), BN(250)>>}

(* C8: for the two rebase-down entries of the test the result of               *)
(* calculateLiquidityTokenQtyForSingleAssetEntry is within 10^-16 of the exact *)
(* quotient S * g / (1 - g).                                                   *)
C8_WithinEpsilonOfExact ==
  (fn = "calculateLiquidityTokenQtyForSingleAssetEntry" /\ args \in C8_RebaseDownCases)
  => isLessThanOrEqualTo(
       multipliedBy(abs(minus(multipliedBy(ret.val, C8_Den), C8_Num)), BNe(1, 16)),
       C8_Den)

C9_RequiredQuote ==
  FloorDiv(multipliedBy(args[1], pre.quoteTokenReserveQty), pre.baseTokenReserveQty, 18)

C9_RequiredBase ==
  FloorDiv(multipliedBy(args[2], pre.baseTokenReserveQty), pre.quoteTokenReserveQty, 18)

(* C9: for positive desired quantities and reserves,                           *)
(* calculateAddTokenPairLiquidityQuantities returns (baseDesired,              *)
(* requiredQuote) when requiredQuote = floor18(baseDesired * internalQuote /   *)
(* internalBase) <= quoteDesired, raising INSUFFICIENT_QUOTE_QTY when          *)
(* requiredQuote < quoteMin, and otherwise (requiredBase, quoteDesired) with   *)
(* requiredBase = floor18(quoteDesired * internalBase / internalQuote),        *)
(* raising INSUFFICIENT_BASE_QTY when requiredBase < baseMin.                  *)
C9_PairAtInternalRatio ==
  (fn = "calculateAddTokenPairLiquidityQuantities" /\ PositiveReserves(pre)
     /\ isGreaterThan(args[1], ZERO) /\ isGreaterThan(args[2], ZERO))
  => IF isLessThanOrEqualTo(C9_RequiredQuote, args[2])
     THEN IF isLessThan(C9_RequiredQuote, args[4])
          THEN ret.err = "INSUFFICIENT_QUOTE_QTY"
          ELSE /\ ret.err = "OK"
               /\ isEqualTo(ret.baseTokenQty, args[1])
               /\ isEqualTo(ret.quoteTokenQty, C9_RequiredQuote)
     ELSE IF isLessThan(C9_RequiredBase, args[3])
          THEN ret.err = "INSUFFICIENT_BASE_QTY"
          ELSE /\ ret.err = "OK"
               /\ isEqualTo(ret.baseTokenQty, C9_RequiredBase)
               /\ isEqualTo(ret.quoteTokenQty, args[2])

(* C10: with LPsupply > 0 and externalQuote > 0 the liquidity issued for a     *)
(* double-asset entry is floor18(quoteContributed * LPsupply / externalQuote). *)
C10_FloorOfQuoteShare ==
  (fn = "calculateLiquidityTokenQtyForDoubleAssetEntry"
     /\ isGreaterThan(args[1], ZERO) /\ isGreaterThan(args[3], ZERO))
  => isEqualTo(ret.val, FloorDiv(multipliedBy(args[2], args[1]), args[3], 18))

(* l is p's square root rounded to 20 places, halves up:                       *)
(* (2 * l * 10^20 - 1)^2 <= 4 * p * 10^40 < (2 * l * 10^20 + 1)^2.             *)
C11_RootBetween(x, q) ==
  /\ isZero(x) \/ isLessThanOrEqualTo(multipliedBy(minus(x, BN(1)), minus(x, BN(1))), q)
  /\ isLessThan(q, multipliedBy(plus(x, BN(1)), plus(x, BN(1))))

C11_IsRoot(l, p) ==
  /\ l.k = "fin" /\ ~isNegative(l)
  /\ C11_RootBetween(multipliedBy(l, BNe(2, 20)), multipliedBy(p, BNe(4, 40)))

(* C11: with a liquidity token supply of 0, calculateAddLiquidityQuantities    *)
(* raises INSUFFICIENT_BASE_QTY_DESIRED when baseTokenQtyDesired <= 0, else    *)
(* INSUFFICIENT_QUOTE_QTY_DESIRED when quoteTokenQtyDesired <= 0, and else     *)
(* returns the desired quantities, sqrt(base * quote) liquidity tokens and no  *)
(* fee, whatever the minimums and the external reserves.                       *)
C11_FirstLiquidity ==
  (fn = "calculateAddLiquidityQuantities" /\ isEqualTo(args[7], ZERO))
  => IF isLessThanOrEqualTo(args[1], ZERO)
     THEN ret.err = "INSUFFICIENT_BASE_QTY_DESIRED"
     ELSE IF isLessThanOrEqualTo(args[2], ZERO)
     THEN ret.err = "INSUFFICIENT_QUOTE_QTY_DESIRED"
     ELSE /\ ret.err = "OK"
          /\ isEqualTo(ret.baseTokenQty, args[1])
          /\ isEqualTo(ret.quoteTokenQty, args[2])
          /\ C11_IsRoot(ret.liquidityTokenQty, multipliedBy(args[1], args[2]))
          /\ isEqualTo(ret.liquidityTokenFeeQty, ZERO)

(* first liquidity whose square root is not a whole number, given with         *)
(* minimums above the desired quantities' reach                                *)
C11_Witness ==
  /\ fn = "calculateAddLiquidityQuantities" /\ isEqualTo(args[7], ZERO)
  /\ ret.err = "OK"
  /\ ret.liquidityTokenQty.e > 0
  /\ isGreaterThan(args[4], ZERO)

(* |externalBase - internalBase| / (internalBase / internalQuote) > 1, with no *)
(* rounding: |externalBase - internalBase| * internalQuote > internalBase      *)
C12_AboveOne(externalBase) ==
  isGreaterThan(multipliedBy(abs(minus(externalBase, pre.baseTokenReserveQty)),
                             pre.quoteTokenReserveQty),
                pre.baseTokenReserveQty)

(* the plain double-asset entry on the supply that includes the fee *)
C12_PairEntry ==
  calculateAddTokenPairLiquidityQuantities(args[1], args[2], args[3], args[4], args[6],
    plus(calculateLiquidityTokenFees(args[7], pre), args[7]), pre)

(* C12: with positive internal reserves isSufficientDecayPresent is true       *)
(* exactly when |externalBase - internalBase| / (internalBase / internalQuote) *)
(* is above 1; at 1 or below, calculateAddLiquidityQuantities is the plain     *)
(* double-asset entry.                                                         *)
C12_DecayIffAboveOne ==
  /\ (fn = "isSufficientDecayPresent" /\ PositiveReserves(pre))
       => (ret.val <=> C12_AboveOne(args[1]))
  /\ (fn = "calculateAddLiquidityQuantities" /\ PositiveReserves(pre)
         /\ isGreaterThan(args[7], ZERO) /\ ~C12_AboveOne(args[5]))
       => /\ ret.err = C12_PairEntry.err
          /\ ret.err = "OK"
               => /\ isEqualTo(ret.baseTokenQty, C12_PairEntry.baseTokenQty)
                  /\ isEqualTo(ret.quoteTokenQty, C12_PairEntry.quoteTokenQty)
                  /\ isEqualTo(ret.liquidityTokenQty, C12_PairEntry.liquidityTokenQty)

C13_SameValues(a, b) ==
  /\ isEqualTo(a.baseTokenReserveQty, b.baseTokenReserveQty)
  /\ isEqualTo(a.quoteTokenReserveQty, b.quoteTokenReserveQty)
  /\ isEqualTo(a.kLast, b.kLast)

(* C13: after a call of calculateQuoteTokenQty, calculateBaseTokenQty,         *)
(* calculateAddLiquidityQuantities, calculateAddQuoteTokenLiquidityQuantities, *)
(* calculateAddTokenPairLiquidityQuantities or isSufficientDecayPresent,       *)
(* returning or raising, the internalBalances record the caller passed holds   *)
(* the values it held before the call.                                         *)
C13_CallerRecordUnchanged ==
  fn \in {"calculateQuoteTokenQty", "calculateBaseTokenQty",
          "calculateAddLiquidityQuantities", "calculateAddQuoteTokenLiquidityQuantities",
          "calculateAddTokenPairLiquidityQuantities", "isSufficientDecayPresent"}
  => C13_SameValues(ib, pre)

C14_Finite(v) == v.k = "fin"

(* the functions of C14 that SpecHelpers calls and that return one number *)
C14_Functions ==
  {"calculateQty", "calculateQtyToReturnAfterFees",
   "calculateLiquidityTokenQtyForDoubleAssetEntry",
   "calculateLiquidityTokenQtyForSingleAssetEntry",
   "calculateExchangeRate", "calculateFees", "calculateOutputAmountLessFees"}

(* C14: a call with an argument that is no finite number raises NAN_ERROR, and *)
(* no call returns NaN or an infinite value.                                   *)
C14_NanErrorOrFinite ==
  /\ fn \in C14_Functions
       => /\ (\E i \in DOMAIN args : ~C14_Finite(args[i])) => ret.err = "NAN_ERROR"
          /\ ret.err = "OK" => C14_Finite(ret.val)
  /\ fn = "calculateTokenAmountsFromLPTokens"
       => /\ (\E i \in DOMAIN args : ~C14_Finite(args[i])) => ret.err = "NAN_ERROR"
          /\ ret.err = "OK" => /\ C14_Finite(ret.baseTokenReceived)
                               /\ C14_Finite(ret.quoteTokenReceived)

(* every argument is a finite number that is not negative *)
C15_Plain == \A i \in DOMAIN args : args[i].k = "fin" /\ ~isNegative(args[i])

(* C15: a zero reserve raises INSUFFICIENT_LIQUIDITY: in calculateQty (after   *)
(* INSUFFICIENT_QTY for a quantity <= 0), calculateExchangeRate and            *)
(* calculateOutputAmountLessFees for either reserve, in                        *)
(* calculateTokenAmountsFromLPTokens for a liquidity token supply of 0 and in  *)
(* calculateLiquidityTokenQtyForDoubleAssetEntry for a quote reserve of 0.     *)
C15_ZeroReserveRaises ==
  /\ (fn = "calculateQty" /\ C15_Plain)
       => IF isLessThanOrEqualTo(args[1], ZERO) THEN ret.err = "INSUFFICIENT_QTY"
          ELSE (isZero(args[2]) \/ isZero(args[3])) => ret.err = "INSUFFICIENT_LIQUIDITY"
  /\ (fn = "calculateExchangeRate" /\ C15_Plain /\ (isZero(args[1]) \/ isZero(args[2])))
       => ret.err = "INSUFFICIENT_LIQUIDITY"
  /\ (fn = "calculateOutputAmountLessFees" /\ C15_Plain
         /\ (isZero(args[2]) \/ isZero(args[3])))
       => ret.err = "INSUFFICIENT_LIQUIDITY"
  /\ (fn = "calculateTokenAmountsFromLPTokens" /\ C15_Plain /\ isZero(args[5]))
       => ret.err = "INSUFFICIENT_LIQUIDITY"
  /\ (fn = "calculateLiquidityTokenQtyForDoubleAssetEntry" /\ C15_Plain /\ isZero(args[3]))
       => ret.err = "INSUFFICIENT_LIQUIDITY"

(* x * (10000 - fee), the quantity swapped less the fee, in basis points *)
C16_LessFee == multipliedBy(args[1], minus(BASIS_POINTS, args[4]))

(* calculateQtyToReturnAfterFees(quoteIn, impliedQuote, externalBase, fee) for *)
(* impliedQuote = externalBase * internalQuote / internalBase, the quote       *)
(* reserve at which impliedQuote / externalBase = internalQuote /              *)
(* internalBase: numerator and denominator are multiplied by internalBase      *)
C16_RescaledOut ==
  FloorDiv(multipliedBy(multipliedBy(C16_LessFee, args[3]), pre.baseTokenReserveQty),
           plus(multipliedBy(multipliedBy(args[3], pre.quoteTokenReserveQty), BASIS_POINTS),
                multipliedBy(C16_LessFee, pre.baseTokenReserveQty)),
           0)

(* the output on the internal curve as it stands *)
C16_InternalOut ==
  ExactQtyToReturn(args[1], pre.quoteTokenReserveQty, pre.baseTokenReserveQty, args[4])

(* C16: for a positive quote quantity on positive reserves, a returning        *)
(* calculateBaseTokenQty gives, when externalBase < internalBase,              *)
(* calculateQtyToReturnAfterFees(quoteIn, impliedQuote, externalBase, fee)     *)
(* with impliedQuote / externalBase = internalQuote / internalBase, which is   *)
(* at most externalBase and at most the output on the internal curve; and      *)
(* otherwise calculateQtyToReturnAfterFees(quoteIn, internalQuote,             *)
(* internalBase, fee).                                                         *)
C16_RescaledCurve ==
  (fn = "calculateBaseTokenQty" /\ ret.err = "OK" /\ PositiveReserves(pre)
     /\ isGreaterThan(args[1], ZERO) /\ isGreaterThan(args[3], ZERO))
  => IF isLessThan(args[3], pre.baseTokenReserveQty)
     THEN /\ isEqualTo(ret.val, C16_RescaledOut)
          /\ isLessThanOrEqualTo(ret.val, args[3])
          /\ isLessThanOrEqualTo(ret.val, C16_InternalOut)
     ELSE isEqualTo(ret.val, C16_InternalOut)

(* the output a swap computes before it compares it with the minimum *)
C17_QuoteOut ==
  calculateQtyToReturnAfterFees(args[1], pre.baseTokenReserveQty, pre.quoteTokenReserveQty, args[3])

C17_BaseOut ==
  IF isLessThan(args[3], pre.baseTokenReserveQty)
  THEN calculateQtyToReturnAfterFees(args[1], impliedQuoteTokenQty(args[3], pre), args[3], args[4])
  ELSE calculateQtyToReturnAfterFees(args[1], pre.quoteTokenReserveQty, pre.baseTokenReserveQty, args[4])

C17_Unchanged ==
  /\ isEqualTo(ib.baseTokenReserveQty, pre.baseTokenReserveQty)
  /\ isEqualTo(ib.quoteTokenReserveQty, pre.quoteTokenReserveQty)
  /\ isEqualTo(ib.kLast, pre.kLast)

C17_Minimum(e, out, min) ==
  /\ (ret.err = e) <=> isLessThan(out, min)
  /\ isEqualTo(out, min) => (ret.err = "OK" /\ isEqualTo(ret.val, out))
  /\ (ret.err = e) => C17_Unchanged

(* C17: a swap that passed its check of the quantities raises                  *)
(* INSUFFICIENT_BASE_TOKEN_QTY (INSUFFICIENT_QUOTE_TOKEN_QTY) exactly when     *)
(* the output it computed is below the minimum, returns an output equal to     *)
(* the minimum, and leaves the internalBalances values as they were when it    *)
(* raises.                                                                     *)
C17_BelowMinimumRaises ==
  /\ (fn = "calculateQuoteTokenQty" /\ ret.err # "INSUFFICIENT_TOKEN_QTY")
       => C17_Minimum("INSUFFICIENT_QUOTE_TOKEN_QTY", C17_QuoteOut, args[2])
  /\ (fn = "calculateBaseTokenQty")
       => C17_Minimum("INSUFFICIENT_BASE_TOKEN_QTY", C17_BaseOut, args[2])

(* sqrt(internalBase * internalQuote) and sqrt(kLast) of a call of            *)
(* calculateLiquidityTokenFees                                                 *)
C18_RootK == sqrt(multipliedBy(args[2], args[3]))

C18_RootKLast == sqrt(args[4])

(* half a unit of the last of DECIMAL_PLACES places: |a - b * q| <= b / 2e20, *)
(* q is the quotient a / b to DECIMAL_PLACES places, for b > 0                 *)
C18_IsQuotient(q, a, b) ==
  isLessThanOrEqualTo(multipliedBy(abs(minus(a, multipliedBy(b, q))), BNe(2, DECIMAL_PLACES)), b)

C18_Fee(fee, supply, rootK, rootKLast) ==
  /\ isGreaterThanOrEqualTo(fee, ZERO)
  /\ IF isLessThanOrEqualTo(rootK, rootKLast)
     THEN isEqualTo(fee, ZERO)
     ELSE /\ C18_IsQuotient(fee, multipliedBy(supply, minus(rootK, rootKLast)),
                            plus(multipliedBy(BN(5), rootK), rootKLast))
          /\ C18_IsQuotient(fee, multipliedBy(minus(rootK, rootKLast), plus(supply, fee)),
                            multipliedBy(BN(6), rootK))

(* C18: calculateLiquidityTokenFees returns 0 when rootK <= rootKLast and      *)
(* otherwise LPsupply * (rootK - rootKLast) / (5 * rootK + rootKLast), to      *)
(* DECIMAL_PLACES places; the fee is never negative, and fee * 6 * rootK is    *)
(* (rootK - rootKLast) * (LPsupply + fee) to the same precision, that is the   *)
(* fee's share of the supply after the mint is one sixth of the growth of      *)
(* sqrt(k).                                                                    *)
C18_OneSixthOfGrowth ==
  fn = "calculateLiquidityTokenFees" => C18_Fee(ret.val, args[1], C18_RootK, C18_RootKLast)

(* a fee is minted: k has grown since kLast, and the quotient is not exact *)
C18_Witness ==
  /\ fn = "calculateLiquidityTokenFees"
  /\ isGreaterThan(C18_RootK, C18_RootKLast)
  /\ isGreaterThan(ret.val, ZERO)
  /\ ~isEqualTo(ret.val, dpDown(ret.val, 0))

(* received is reserve * (lp / supply) * (1 - slip / 100) with the quotient   *)
(* lp / supply taken to DECIMAL_PLACES places:                                 *)
(* |received * 100 * supply - reserve * lp * (100 - slip)|                     *)
(*    <= reserve * (100 - slip) * supply / 2e20                                *)
C19_IsShare(received, reserve, lp, slip, supply) ==
  isLessThanOrEqualTo(
    multipliedBy(abs(minus(multipliedBy(multipliedBy(received, BN(100)), supply),
                           multipliedBy(multipliedBy(reserve, lp), minus(BN(100), slip)))),
                 BNe(2, DECIMAL_PLACES)),
    multipliedBy(multipliedBy(reserve, minus(BN(100), slip)), supply))

C19_Between(received, reserve) ==
  isGreaterThanOrEqualTo(received, ZERO) /\ isLessThanOrEqualTo(received, reserve)

(* what the same redemption returns at another slippage *)
C19_At(slip) == calculateTokenAmountsFromLPTokens(args[1], slip, args[3], args[4], args[5])

C19_NoMoreAt(other) ==
  /\ isLessThanOrEqualTo(other.baseTokenReceived, ret.baseTokenReceived)
  /\ isLessThanOrEqualTo(other.quoteTokenReceived, ret.quoteTokenReceived)

C19_InRange ==
  /\ fn = "calculateTokenAmountsFromLPTokens"
  /\ isGreaterThanOrEqualTo(args[1], ZERO) /\ isLessThanOrEqualTo(args[1], args[5])
  /\ isGreaterThan(args[5], ZERO)
  /\ isGreaterThanOrEqualTo(args[2], ZERO) /\ isLessThanOrEqualTo(args[2], BN(100))

C20_OutLessFeesSlip ==
  multipliedBy(calculateQtyToReturnAfterFees(args[1], args[2], args[3], args[5]),
               minus(BN(1), dividedBy(args[4], BN(100))))

(* 100 - (outLessFeesSlip / initialOut) * 100, initialOut = inQty /            *)
(* (inReserve / outReserve)                                                    *)
C20_Shortfall ==
  minus(BN(100),
        multipliedBy(dividedBy(C20_OutLessFeesSlip,
                               dividedBy(args[1], dividedBy(args[2], args[3]))),
                     BN(100)))

C20_Returned(f) == fn = f /\ ret.err = "OK" /\ isGreaterThan(args[1], ZERO)

(* C20 as stated: Exchange.calculatePriceImpact and the math library's         *)
(* calculatePriceImpact both return 100 - (outLessFeesSlip / initialOut) *     *)
(* 100, and it is >= 0 for every inQty > 0.                                    *)
C20_BothReturnShortfall ==
  (C20_Returned("Exchange.calculatePriceImpact") \/ C20_Returned("calculatePriceImpact"))
    => (isEqualTo(ret.val, C20_Shortfall) /\ isGreaterThanOrEqualTo(ret.val, ZERO))

(* the inversion of an output, at the reserves and the fee of the call *)
C21_InputFor(out) ==
  calculateInputAmountFromOutputAmount(out, args[2], args[3], ZERO, args[5])

(* the output is fed back at zero slippage, for x > 0 and positive reserves *)
C21_RoundTrip ==
  /\ fn = "calculateInputAmountFromOutputAmount"
  /\ isEqualTo(args[4], ZERO)
  /\ isGreaterThan(args[6], ZERO) /\ args[6].k = "fin"

C21_UpToTruncation(x, out, outReserve) ==
  /\ isLessThanOrEqualTo(ret.val, x)
  /\ isLessThan(plus(out, BN(1)), outReserve)
       => isGreaterThanOrEqualTo(C21_InputFor(plus(out, BN(1))), x)

(* C21: at zero slippage, feeding out = calculateOutputAmountLessFees(x,       *)
(* inReserve, outReserve, 0, fee) back into the inversion gives a value that   *)
(* never exceeds x and differs from x only by the truncation of out: the       *)
(* inversion of out + 1 is not below x.                                        *)
C21_InverseOfOutput ==
  C21_RoundTrip => C21_UpToTruncation(args[6], args[1], args[3])

(* the same call for another desired quantity, on the record as it was *)
C22_BaseAt(baseTokenQtyDesired) ==
  calculateAddBaseTokenLiquidityQuantities(baseTokenQtyDesired, args[2], args[3], args[4], pre)

C22_QuoteAt(quoteTokenQtyDesired) ==
  calculateAddQuoteTokenLiquidityQuantities(quoteTokenQtyDesired, args[2], args[3], args[4], pre)

C22_NoLess(other) ==
  other.err = "OK" => isGreaterThanOrEqualTo(other.liquidityTokenQty, ret.liquidityTokenQty)

(* C22: for the same supply, external base reserve and internal balances, a    *)
(* larger desired quantity never gets fewer liquidity tokens from              *)
(* calculateAddBaseTokenLiquidityQuantities, nor from                          *)
(* calculateAddQuoteTokenLiquidityQuantities.                                  *)
C22_MonotoneInDesired ==
  /\ (fn = "calculateAddBaseTokenLiquidityQuantities" /\ ret.err = "OK")
       => \A d \in {BN(1), BN(50), BN(100), BN(2000)} :
            isGreaterThanOrEqualTo(d, args[1]) => C22_NoLess(C22_BaseAt(d))
  /\ (fn = "calculateAddQuoteTokenLiquidityQuantities" /\ ret.err = "OK")
       => \A d \in {BN(9), BN(10), BN(2500), BN(3000), BN(10000)} :
            isGreaterThanOrEqualTo(d, args[1]) => C22_NoLess(C22_QuoteAt(d))

C23_Same(integerResult) ==
  integerResult.err = "OK" /\ isEqualTo(integerResult.val, ret.val)

(* C23: on positive reserves, whenever calculateBaseTokenQty returns (the      *)
(* minimum is below the result), both integer getBaseQtyFromQuoteQty variants  *)
(* return the same integer, with or without quote decay.                       *)
C23_SameAsIntegerVariants ==
  (fn = "calculateBaseTokenQty" /\ ret.err = "OK" /\ PositiveReserves(pre))
    => /\ C23_Same(getBaseQtyFromQuoteQty(args[1], args[3], args[4], pre))
       /\ C23_Same(getBaseQtyFromQuoteQtyWDiv(args[1], args[3], args[4], pre))

(* the method is one that moves base tokens, quote tokens, liquidity tokens *)
C24_MovesBase == tx.method \in {"swapBaseTokenForQuoteToken", "addLiquidity"}

C24_MovesQuote == tx.method \in {"swapQuoteTokenForBaseToken", "addLiquidity"}

C24_MovesLP == tx.method = "removeLiquidity"

(* the balance, or the allowance, the caller had when calling is below the   *)
(* quantity                                                                  *)
C24_LowBalance ==
  \/ C24_MovesBase /\ tx.before.baseBalance < tx.qty
  \/ C24_MovesQuote /\ tx.before.quoteBalance < tx.quoteQty
  \/ C24_MovesLP /\ tx.before.lpBalance < tx.qty

C24_LowAllowance ==
  \/ C24_MovesBase /\ tx.before.baseAllowance < tx.qty
  \/ C24_MovesQuote /\ tx.before.quoteAllowance < tx.quoteQty
  \/ C24_MovesLP /\ tx.before.lpAllowance < tx.qty

C24_DesiredNotAboveMinimum ==
  tx.method = "addLiquidity" /\ (tx.qty <= tx.baseMin \/ tx.quoteQty <= tx.quoteMin)

C24_Invalid ==
  \/ tx.expirationTimestamp < tx.startedAt
  \/ C24_LowBalance
  \/ C24_LowAllowance
  \/ C24_DesiredNotAboveMinimum

(* the error thrown names a condition that holds *)
C24_Matching ==
  CASE tx.err = "TIMESTAMP_EXPIRED" -> tx.expirationTimestamp < now
    [] tx.err = "NOT_ENOUGH_BASE_TOKEN_BALANCE" ->
         C24_MovesBase /\ tx.before.baseBalance < tx.qty
    [] tx.err = "NOT_ENOUGH_QUOTE_TOKEN_BALANCE" ->
         C24_MovesQuote /\ tx.before.quoteBalance < tx.quoteQty
    [] tx.err = "NOT_ENOUGH_LP_TOKEN_BALANCE" ->
         C24_MovesLP /\ tx.before.lpBalance < tx.qty
    [] tx.err = "TRANSFER_NOT_APPROVED" -> C24_LowAllowance
    [] tx.err = "TOKEN_QTY_DESIRED_LESS_OR_EQUAL_THAN_MINIMUM" -> C24_DesiredNotAboveMinimum
    [] OTHER -> FALSE

C24_NothingSent == invoked = << >> /\ (tx.pc # "idle" => chain = tx.before)

C25_Called == fn = "calculateAddLiquidityQuantities" /\ isGreaterThan(args[7], ZERO)

(* the supply every entry is computed against *)
C25_Supply == plus(calculateLiquidityTokenFees(args[7], pre), args[7])

C25_BaseDecay == isGreaterThan(args[5], pre.baseTokenReserveQty)

(* the one single-asset entry of a call with decay present *)
C25_DecayEntry ==
  IF C25_BaseDecay
  THEN calculateAddQuoteTokenLiquidityQuantities(args[2], ZERO, args[5], C25_Supply, pre)
  ELSE calculateAddBaseTokenLiquidityQuantities(args[1], ZERO, args[5], C25_Supply, pre)

C25_PairEntryRuns(d) ==
  isLessThan(d.quoteTokenQty, args[2]) /\ isLessThan(d.baseTokenQty, args[1])

(* the pair entry on the remainders of the desired quantities *)
C25_Remainders(d) ==
  calculateAddTokenPairLiquidityQuantities(minus(args[1], d.baseTokenQty),
    minus(args[2], d.quoteTokenQty), ZERO, ZERO, plus(args[6], d.quoteTokenQty),
    plus(C25_Supply, d.liquidityTokenQty), d.ib)

C25_PairOnly ==
  calculateAddTokenPairLiquidityQuantities(args[1], args[2], args[3], args[4], args[6],
                                           C25_Supply, pre)

C25_SameQty(a, b) == a = b \/ isEqualTo(a, b)

C25_Returns(baseTokenQty, quoteTokenQty, liquidityTokenQty) ==
  /\ C25_SameQty(ret.baseTokenQty, baseTokenQty)
  /\ C25_SameQty(ret.quoteTokenQty, quoteTokenQty)
  /\ C25_SameQty(ret.liquidityTokenQty, liquidityTokenQty)

C25_ReturnsEntry(e) ==
  /\ ret.err = e.err
  /\ e.err = "OK" => C25_Returns(e.baseTokenQty, e.quoteTokenQty, e.liquidityTokenQty)

C25_ReturnsSum(d, p) ==
  IF p.err # "OK" THEN ret.err = p.err
  ELSE /\ ret.err \in {"OK", "INSUFFICIENT_BASE_QTY", "INSUFFICIENT_QUOTE_QTY"}
       /\ ret.err = "OK" => C25_Returns(plus(p.baseTokenQty, d.baseTokenQty),
                                        plus(p.quoteTokenQty, d.quoteTokenQty),
                                        plus(p.liquidityTokenQty, d.liquidityTokenQty))

C25_AfterDecay(d) ==
  IF d.err = "OK" /\ C25_PairEntryRuns(d)
  THEN C25_ReturnsSum(d, C25_Remainders(d))
  ELSE C25_ReturnsEntry(d)

(* C25: with a liquidity token supply above 0, calculateAddLiquidityQuantities *)
(* takes one of three branches: without decay it is the pair entry alone; with *)
(* decay it is one single-asset entry (the quote entry if the external base    *)
(* reserve is above the internal one, the base entry otherwise), followed by   *)
(* one pair entry only if the decay entry took less than the desired quote     *)
(* quantity and less than the desired base quantity; that pair entry gets the  *)
(* remainders of the desired quantities with minimums of zero, and its base,   *)
(* quote and liquidity token quantities are added to those of the decay entry. *)
C25_OneDecayThenOnePair ==
  C25_Called =>
    IF isSufficientDecayPresent(args[5], pre)
    THEN C25_AfterDecay(C25_DecayEntry)
    ELSE C25_ReturnsEntry(C25_PairOnly)

C25_WitnessAfter(d) ==
  /\ d.err = "OK" /\ C25_PairEntryRuns(d)
  /\ isGreaterThan(d.quoteTokenQty, ZERO)
  /\ isGreaterThan(ret.baseTokenQty, ZERO)

(* a quote entry for the decay, then a pair entry on what is left *)
C25_Witness ==
  /\ C25_Called /\ ret.err = "OK"
  /\ isSufficientDecayPresent(args[5], pre) /\ C25_BaseDecay
  /\ C25_WitnessAfter(C25_DecayEntry)

C26_Fee == calculateLiquidityTokenFees(args[7], pre)

(* the liquidity tokens of a pair entry of quoteTokenQty *)
C26_PairTokens(totalSupplyOfLiquidityTokens, quoteTokenQty, quoteTokenReserveQty) ==
  calculateLiquidityTokenQtyForDoubleAssetEntry(totalSupplyOfLiquidityTokens, quoteTokenQty,
                                                quoteTokenReserveQty)

(* the residual pair entry: the supply includes the fee and the tokens of the *)
(* decay entry d, the quote reserve the quote tokens of d, and the internal   *)
(* balances are those d left                                                  *)
C26_Residual(d) ==
  /\ C25_SameQty(minus(ret.liquidityTokenQty, d.liquidityTokenQty),
                 C26_PairTokens(plus(C25_Supply, d.liquidityTokenQty),
                                minus(ret.quoteTokenQty, d.quoteTokenQty),
                                plus(args[6], d.quoteTokenQty)))
  /\ C25_SameQty(ib.baseTokenReserveQty,
                 plus(minus(ret.baseTokenQty, d.baseTokenQty), d.ib.baseTokenReserveQty))
  /\ C25_SameQty(ib.quoteTokenReserveQty,
                 plus(minus(ret.quoteTokenQty, d.quoteTokenQty), d.ib.quoteTokenReserveQty))

C26_AfterDecay(d) ==
  IF C25_PairEntryRuns(d) THEN C26_Residual(d)
  ELSE C25_SameQty(ret.liquidityTokenQty, d.liquidityTokenQty)

(* C26: with a liquidity token supply above 0, calculateAddLiquidityQuantities *)
(* returns as liquidityTokenFeeQty the fee of calculateLiquidityTokenFees on   *)
(* the supply and the internal balances it was called with, and every          *)
(* liquidity token quantity is computed against supply + fee: the pair-only    *)
(* entry and the decay entry use supply + fee, the residual pair entry uses    *)
(* supply + fee + the tokens of the decay entry, the external quote reserve    *)
(* plus the quote tokens of the decay entry, and the internal balances the     *)
(* decay entry left.                                                           *)
C26_AgainstSupplyPlusFee ==
  (C25_Called /\ ret.err = "OK") =>
    /\ C25_SameQty(ret.liquidityTokenFeeQty, C26_Fee)
    /\ IF isSufficientDecayPresent(args[5], pre)
       THEN C26_AfterDecay(C25_DecayEntry)
       ELSE C25_SameQty(ret.liquidityTokenQty,
                        C26_PairTokens(C25_Supply, ret.quoteTokenQty, args[6]))

(* a fee is due, and a residual pair entry follows the decay entry *)
C26_Witness ==
  /\ C25_Called /\ ret.err = "OK"
  /\ isGreaterThan(ret.liquidityTokenFeeQty, ZERO)
  /\ isSufficientDecayPresent(args[5], pre)
  /\ C25_PairEntryRuns(C25_DecayEntry)
  /\ isGreaterThan(ret.liquidityTokenQty, ZERO)

C28_NotNegative(q) == isGreaterThanOrEqualTo(q, ZERO)

(* C28: when calculateAddLiquidityQuantities returns, the base token quantity *)
(* is at most the desired base token quantity, the quote token quantity at    *)
(* most the desired quote token quantity, and the base, quote, liquidity      *)
(* token and liquidity token fee quantities are 0 or more.                    *)
C28_WithinDesired ==
  (fn = "calculateAddLiquidityQuantities" /\ ret.err = "OK") =>
    /\ isLessThanOrEqualTo(ret.baseTokenQty, args[1])
    /\ isLessThanOrEqualTo(ret.quoteTokenQty, args[2])
    /\ C28_NotNegative(ret.baseTokenQty)
    /\ C28_NotNegative(ret.quoteTokenQty)
    /\ C28_NotNegative(ret.liquidityTokenQty)
    /\ C28_NotNegative(ret.liquidityTokenFeeQty)

C27_Functions ==
  {"calculateExchangeRate", "calculateOutputAmountLessFees", "calculatePriceImpact"}

C27_AnyNaN == \E i \in DOMAIN args : args[i].k = "nan"

C27_AnyNegative == \E i \in DOMAIN args : isLessThan(args[i], ZERO)

C27_InputReserve == IF fn = "calculateExchangeRate" THEN args[1] ELSE args[2]

C27_OutputReserve == IF fn = "calculateExchangeRate" THEN args[2] ELSE args[3]

(* the first of the three errors that applies *)
C27_FirstError ==
  IF C27_AnyNaN THEN "NAN_ERROR"
  ELSE IF C27_AnyNegative THEN "NEGATIVE_INPUT"
  ELSE IF isEqualTo(C27_InputReserve, ZERO) \/ isEqualTo(C27_OutputReserve, ZERO)
  THEN "INSUFFICIENT_LIQUIDITY"
  ELSE "OK"

C27_InOrder == fn \in C27_Functions => ret.err = C27_FirstError

C27_Rate ==
  (fn = "calculateExchangeRate" /\ ret.err = "OK" /\ args[1].k = "fin" /\ args[2].k = "fin")
    => C18_IsQuotient(ret.val, args[1], args[2])

(* C27: calculateExchangeRate, calculateOutputAmountLessFees and              *)
(* calculatePriceImpact raise NAN_ERROR if an argument is NaN, otherwise       *)
(* NEGATIVE_INPUT if an argument is negative, otherwise INSUFFICIENT_LIQUIDITY *)
(* if a reserve is zero, and otherwise return; calculateExchangeRate returns   *)
(* the quotient of the input reserve by the output reserve.                    *)
C27_FirstErrorOrValue == C27_InOrder /\ C27_Rate

RECURSIVE C29_Flatten(_)

(* the requests of a sequence of batches, in order *)
C29_Flatten(dispatched) ==
  IF dispatched = << >> THEN << >> ELSE Head(dispatched) \o C29_Flatten(Tail(dispatched))

C29_Queued(r) == \E k \in DOMAIN queue : queue[k] = r

C29_InFlight(r) == \E i \in DOMAIN batches : \E k \in DOMAIN batches[i] : batches[i][k] = r

(* the batches a step handed to provider.all *)
C29_Handed == SubSeq(batches', Len(batches) + 1, Len(batches'))

(* only call() returns a number, takes requests from the queue or hands *)
(* batches over                                                         *)
C29_CallStep == returned' # returned \/ Len(queue') < Len(queue) \/ Len(batches') > Len(batches)

C29_Call ==
  C29_CallStep =>
    /\ queue' = << >>
    /\ returned' = Len(queue)
    /\ C29_Flatten(C29_Handed) = queue
    /\ \A i \in DOMAIN C29_Handed : Len(C29_Handed[i]) <= MAX_REQUESTS_PER_CALL

(* every request is in the queue or was handed to one batch *)
C29_OneBatch(r) == promises[r].handed = IF C29_Queued(r) THEN 0 ELSE 1

C29_SettledOnce(r) ==
  /\ promises[r].settled <= 1
  /\ promises[r].settled = 1 <=> promises[r].state # "pending"
  /\ (promises[r].handed = 1 /\ ~C29_InFlight(r) /\ ~promises[r].retrying)
       => promises[r].settled = 1
  /\ promises[r].state = "resolved" => promises[r].value = ResultOf(r)
  /\ promises[r].state = "rejected" => r \in Reverting

(* C29: call() takes every request of the queue, leaves the queue empty,   *)
(* returns their number (0 for an empty queue) and hands them, in the      *)
(* order of the queue and each once, to batches of at most                 *)
(* MAX_REQUESTS_PER_CALL requests; the promise of a request is settled     *)
(* once: resolved with the result of its own request when the batch        *)
(* succeeds, and when the batch fails as its own call alone turns out, so  *)
(* that only a request that fails is rejected.                             *)
C29_CallDispatchesQueue ==
  /\ [](\A r \in DOMAIN promises : C29_OneBatch(r) /\ C29_SettledOnce(r))
  /\ [][C29_Call]_vars

(* a queue of MaxRequests requests went out in two batches; the first was  *)
(* answered, the second failed and its request, made alone, was rejected   *)
C29_Witness ==
  /\ returned = MAX_REQUESTS_PER_CALL + 1
  /\ batches = << >>
  /\ promises[1].state = "resolved" /\ promises[1].settled = 1
  /\ promises[MAX_REQUESTS_PER_CALL + 1].state = "rejected"

C30_Dispatched(r) == r \in DOMAIN promises /\ promises[r].handed > 0

(* a step in which call() ran on a queue with requests *)
C30_Cancels == (returned' # returned \/ Len(queue') < Len(queue)) => timers' = {}

(* C30: every request enqueue put in the queue is in time handed to a batch *)
(* by the call() of the timer, whatever enqueue calls follow and without a  *)
(* call() of the caller; a call() leaves no timer pending, and at no time   *)
(* is more than one timer pending.                                          *)
C30_AutoCallDispatchesEveryRequest ==
  /\ \A r \in 1..MaxRequests : C29_Queued(r) ~> C30_Dispatched(r)
  /\ [](Cardinality(timers) <= 1)
  /\ [][C30_Cancels]_vars

=============================================================================
